---- MODULE Spec2Model ----
(***************************************************************************)
(* Model of the tcgm linear-algebra library: the flat-array matrix         *)
(* accessor layer (Matrix4x4 / Matrix3x2 reader and writer views), the     *)
(* clamp and normalize operations of Vector2 / Vector3 / Vector4, and      *)
(* Plane.normalize.                                                        *)
(*                                                                         *)
(* Numbers.  A JavaScript number is modelled as an exact rational n/d in   *)
(* lowest terms (d > 0), extended with the three IEEE-754 specials the     *)
(* code can produce: +Infinity = 1/0, -Infinity = -1/0 and NaN = 0/0.      *)
(* Rounding and the sign of zero are abstracted away; the inputs are kept  *)
(* to values whose square roots are rational.                              *)
(*                                                                         *)
(* Objects.  Arrays live in a heap indexed by array identifiers, so that   *)
(* a view over a tuple and the matrix owning the tuple can be told to be   *)
(* the same storage or a copy of it.                                       *)
(***************************************************************************)
EXTENDS Integers, Sequences, FiniteSets, TLC

VARIABLES
    heap,       \* array id -> the array's elements (<<>> while unallocated)
    frozen,     \* the set of array ids on which Object.freeze was called
    mat4,       \* the Matrix4x4 instance: [elements |-> array id, frozen |-> BOOLEAN]
    mat3,       \* the Matrix3x2 instance: [elements |-> array id, frozen |-> BOOLEAN]
    vec,        \* the vector instance an operation is called on
    plane,      \* the Plane instance: [normal |-> Vector3, d |-> number]
    op,         \* the last operation: its name, arguments and pre-state
    ret,        \* what the last operation returned
    err,        \* the error the last operation threw ("none" if it returned)
    nops,       \* number of operations performed so far
    objs,       \* object id -> a vector or plane object held by reference
    calls       \* activation id -> the frame of a call in progress (pc, arguments)

vars == <<heap, frozen, mat4, mat3, vec, plane, op, ret, err, nops, objs, calls>>

----------------------------------------------------------------------------
(* Bounds of the model *)

\* number of array identifiers of the heap
MaxArrays == 4
\* number of mutating operations in one behaviour of the matrix machine
MaxOps == 1
\* values written into matrices are the integers 0..MaxWrite and NaN
MaxWrite == 1
\* clamp is called with components among -1..MaxClamp, NaN and +-Infinity
MaxClamp == 5
\* normalize is called with components among -MaxNorm..MaxNorm, NaN and Infinity
MaxNorm == 2
\* number of vector and plane objects held by reference
MaxObjs == 5
\* number of calls in one behaviour of the object machine
MaxCalls == 2

----------------------------------------------------------------------------
(* JavaScript numbers *)

RECURSIVE GCD(_, _)
GCD(a, b) == IF b = 0 THEN a ELSE GCD(b, a % b)

AbsInt(i) == IF i < 0 THEN -i ELSE i

SignInt(i) == IF i < 0 THEN -1 ELSE IF i > 0 THEN 1 ELSE 0

\* the number n/d: lowest terms, positive denominator; d = 0 gives a special
Num(n, d) ==
    IF d = 0 THEN [n |-> SignInt(n), d |-> 0]
    ELSE LET g == GCD(AbsInt(n), AbsInt(d))
             s == IF d < 0 THEN -1 ELSE 1
         IN  [n |-> s * (n \div g), d |-> s * (d \div g)]

I(i) == [n |-> i, d |-> 1]

NaN == [n |-> 0, d |-> 0]
Infinity == [n |-> 1, d |-> 0]
NegInfinity == [n |-> -1, d |-> 0]
Zero == I(0)
One == I(1)

IsNaN(a) == a.d = 0 /\ a.n = 0
IsInfinite(a) == a.d = 0 /\ a.n # 0
IsFinite(a) == a.d # 0

Neg(a) == [n |-> -a.n, d |-> a.d]

\* a * b; cross-cancelling keeps the intermediate products small
Mul(a, b) ==
    IF a.d = 0 \/ b.d = 0 THEN Num(a.n * b.n, 0)
    ELSE LET g1 == GCD(AbsInt(a.n), b.d)
             g2 == GCD(AbsInt(b.n), a.d)
         IN  Num((a.n \div g1) * (b.n \div g2), (a.d \div g2) * (b.d \div g1))

\* a + b; Infinity + Infinity = Infinity, Infinity + -Infinity = NaN
Add(a, b) ==
    IF IsNaN(a) \/ IsNaN(b) THEN NaN
    ELSE IF a.d = 0 /\ b.d = 0 THEN (IF a.n = b.n THEN a ELSE NaN)
    ELSE IF a.d = 0 THEN a
    ELSE IF b.d = 0 THEN b
    ELSE LET g == GCD(a.d, b.d)
         IN  Num(a.n * (b.d \div g) + b.n * (a.d \div g), (a.d \div g) * b.d)

Sub(a, b) == Add(a, Neg(b))

\* 1 / a; 1/0 = Infinity, 1/Infinity = 0
Inv(a) == IF a.n < 0 THEN [n |-> -a.d, d |-> -a.n] ELSE [n |-> a.d, d |-> a.n]

Div(a, b) == Mul(a, Inv(b))

Abs(a) == [n |-> AbsInt(a.n), d |-> a.d]

\* a < b for finite a, b, by comparing the continued-fraction expansions
\* (no products, so no overflow whatever the size of the denominators)
RECURSIVE LtFinite(_, _, _, _)
LtFinite(an, ad, bn, bd) ==
    LET qa == an \div ad
        qb == bn \div bd
        ra == an % ad
        rb == bn % bd
    IN  IF qa # qb THEN qa < qb
        ELSE IF rb = 0 THEN FALSE
        ELSE IF ra = 0 THEN TRUE
        ELSE LtFinite(bd, rb, ad, ra)

\* the < operator of the language: false as soon as an operand is NaN
Lt(a, b) ==
    IF IsNaN(a) \/ IsNaN(b) THEN FALSE
    ELSE IF a.d = 0 \/ b.d = 0
         THEN (IF a.d = 0 /\ b.d = 0 THEN a.n < b.n
               ELSE IF a.d = 0 THEN a.n < 0
               ELSE b.n > 0)
    ELSE LtFinite(a.n, a.d, b.n, b.d)

Gt(a, b) == Lt(b, a)

Le(a, b) == ~IsNaN(a) /\ ~IsNaN(b) /\ ~Lt(b, a)

\* the === operator on numbers: NaN is not equal to itself
StrictEq(a, b) == ~IsNaN(a) /\ ~IsNaN(b) /\ a = b

RECURSIVE FloorSqrtBetween(_, _, _)
\* the largest r in lo..hi with r * r <= n, by bisection
FloorSqrtBetween(n, lo, hi) ==
    IF lo >= hi THEN lo
    ELSE LET mid == (lo + hi + 1) \div 2
         IN  IF mid * mid <= n THEN FloorSqrtBetween(n, mid, hi)
             ELSE FloorSqrtBetween(n, lo, mid - 1)

\* the integer part of the root of n (46340 is the root of the largest square
\* below 2^31)
FloorSqrt(n) == FloorSqrtBetween(n, 0, IF n < 46340 THEN n ELSE 46340)

\* the integer square root of a perfect square
ISqrt(n) == FloorSqrt(n)

\* Math.sqrt on the numbers whose root is rational
Sqrt(a) ==
    IF IsNaN(a) \/ a.n < 0 THEN NaN
    ELSE IF a.d = 0 THEN Infinity
    ELSE [n |-> ISqrt(a.n), d |-> ISqrt(a.d)]

----------------------------------------------------------------------------
(* Matrix field names and the flat-array accessor layer *)

Fields4 == {<<i, j>> : i \in 1..4, j \in 1..4}
Fields3 == {<<i, j>> : i \in 1..3, j \in 1..2}

\* mutant: the getters index the tuple row-major
Matrix4x4ReaderIndexRowMajor(f) == (f[1] - 1) * 4 + (f[2] - 1)

\* Matrix4x4Reader.Methods.$m11 .. $m44: the index each getter reads
Matrix4x4ReaderIndex(f) ==
    CASE f = <<1, 1>> -> 0  [] f = <<1, 2>> -> 4  [] f = <<1, 3>> -> 8   [] f = <<1, 4>> -> 12
      [] f = <<2, 1>> -> 1  [] f = <<2, 2>> -> 5  [] f = <<2, 3>> -> 9   [] f = <<2, 4>> -> 13
      [] f = <<3, 1>> -> 2  [] f = <<3, 2>> -> 6  [] f = <<3, 3>> -> 10  [] f = <<3, 4>> -> 14
      [] f = <<4, 1>> -> 3  [] f = <<4, 2>> -> 7  [] f = <<4, 3>> -> 11  [] f = <<4, 4>> -> 15

\* mutant: $m13 and $m23 of the writer address each other's element
Matrix4x4WriterIndexSwapped(f) ==
    IF f = <<1, 3>> THEN 9
    ELSE IF f = <<2, 3>> THEN 8
    ELSE (f[1] - 1) + (f[2] - 1) * 4

\* mutant: the setters take the offsets to be 1-based
Matrix4x4WriterIndexOneBased(f) == (f[1] - 1) + (f[2] - 1) * 4 + 1

\* Matrix4x4Writer.Methods.$m11 .. $m44: the index each setter writes
Matrix4x4WriterIndex(f) ==
    CASE f = <<1, 1>> -> 0  [] f = <<1, 2>> -> 4  [] f = <<1, 3>> -> 8   [] f = <<1, 4>> -> 12
      [] f = <<2, 1>> -> 1  [] f = <<2, 2>> -> 5  [] f = <<2, 3>> -> 9   [] f = <<2, 4>> -> 13
      [] f = <<3, 1>> -> 2  [] f = <<3, 2>> -> 6  [] f = <<3, 3>> -> 10  [] f = <<3, 4>> -> 14
      [] f = <<4, 1>> -> 3  [] f = <<4, 2>> -> 7  [] f = <<4, 3>> -> 11  [] f = <<4, 4>> -> 15

\* Matrix3x2Reader.Methods.$m11 .. $m32
Matrix3x2ReaderIndex(f) ==
    CASE f = <<1, 1>> -> 0  [] f = <<1, 2>> -> 3
      [] f = <<2, 1>> -> 1  [] f = <<2, 2>> -> 4
      [] f = <<3, 1>> -> 2  [] f = <<3, 2>> -> 5

\* Matrix3x2Writer.Methods.$m11 .. $m32
Matrix3x2WriterIndex(f) ==
    CASE f = <<1, 1>> -> 0  [] f = <<1, 2>> -> 3
      [] f = <<2, 1>> -> 1  [] f = <<2, 2>> -> 4
      [] f = <<3, 1>> -> 2  [] f = <<3, 2>> -> 5

\* Matrix3x2Array.Methods.$getM11 .. $getM32
Matrix3x2ArrayGetIndex(f) ==
    CASE f = <<1, 1>> -> 0  [] f = <<1, 2>> -> 3
      [] f = <<2, 1>> -> 1  [] f = <<2, 2>> -> 4
      [] f = <<3, 1>> -> 2  [] f = <<3, 2>> -> 5

\* Matrix3x2Array.Methods.$setM11 .. $setM32
Matrix3x2ArraySetIndex(f) ==
    CASE f = <<1, 1>> -> 0  [] f = <<1, 2>> -> 3
      [] f = <<2, 1>> -> 1  [] f = <<2, 2>> -> 4
      [] f = <<3, 1>> -> 2  [] f = <<3, 2>> -> 5

----------------------------------------------------------------------------
(* The heap of arrays *)

ArrayIds == 1..MaxArrays

Allocated(h) == {a \in ArrayIds : h[a] # <<>>}

FreeIds(h) == {a \in ArrayIds : h[a] = <<>>}

\* the identifier a new array gets
NewId(h) == CHOOSE a \in FreeIds(h) : \A b \in FreeIds(h) : a <= b

\* the value a hole of an array reads as in arithmetic (undefined)
Hole == NaN

\* array[index] with a 0-based index; an index past the end reads a hole
ArrayGet(h, a, index) == IF index < Len(h[a]) THEN h[a][index + 1] ELSE Hole

\* array[index] = value with a 0-based index; an index past the end grows the
\* array, leaving holes before the new element
ArraySet(h, a, index, value) ==
    IF index < Len(h[a])
    THEN [h EXCEPT ![a][index + 1] = value]
    ELSE [h EXCEPT ![a] =
            [i \in 1..(index + 1) |->
                IF i <= Len(h[a]) THEN h[a][i] ELSE IF i = index + 1 THEN value ELSE Hole]]

\* mutant: the literal laid out with a 1 in the m41 slot instead of m44
Matrix4x4IdentityShifted ==
    << One, Zero, Zero, One,
       Zero, One, Zero, Zero,
       Zero, Zero, One, Zero,
       Zero, Zero, Zero, Zero >>

\* the array literal of the Matrix4x4 constructor
Matrix4x4Identity ==
    << One, Zero, Zero, Zero,
       Zero, One, Zero, Zero,
       Zero, Zero, One, Zero,
       Zero, Zero, Zero, One >>

\* the array literal of the Matrix3x2 constructor
Matrix3x2Identity == << One, Zero, Zero, Zero, One, Zero >>

\* Matrix4x4Reader.$fromTuple, Matrix4x4Writer.$fromTuple: a cast of the tuple,
\* the view is the tuple itself
Matrix4x4ReaderFromTuple(h, tuple) == [heap |-> h, ref |-> tuple]

\* mutant: the writer view is built over a copy of the tuple
Matrix4x4WriterFromTupleCopy(h, tuple) ==
    IF FreeIds(h) = {} THEN [heap |-> h, ref |-> tuple]
    ELSE [heap |-> [h EXCEPT ![NewId(h)] = h[tuple]], ref |-> NewId(h)]

Matrix4x4WriterFromTuple(h, tuple) == [heap |-> h, ref |-> tuple]

\* Matrix3x2Reader.$fromTuple, Matrix3x2Writer.$fromTuple
Matrix3x2ReaderFromTuple(h, tuple) == [heap |-> h, ref |-> tuple]

Matrix3x2WriterFromTuple(h, tuple) == [heap |-> h, ref |-> tuple]

\* Matrix3x2Array.$fromMatrix3x2: a cast of matrix.elements
Matrix3x2ArrayFromMatrix3x2(h, matrix) == [heap |-> h, ref |-> matrix.elements]

\* the kinds of view and, for each, the matrix size, the field names and the
\* index its getter and its setter address (a reader view has no setter)
ViewKinds ==
    {"Matrix4x4Reader", "Matrix4x4Writer", "Matrix3x2Reader", "Matrix3x2Writer",
     "Matrix3x2Array"}

WriterKinds == {"Matrix4x4Writer", "Matrix3x2Writer", "Matrix3x2Array"}

Is4x4(k) == k \in {"Matrix4x4Reader", "Matrix4x4Writer"}

FieldsOf(k) == IF Is4x4(k) THEN Fields4 ELSE Fields3

\* the index the getter of field f of a view of kind k reads
GetIndex(k, f) ==
    CASE k = "Matrix4x4Reader" -> Matrix4x4ReaderIndex(f)
      [] k = "Matrix4x4Writer" -> Matrix4x4WriterIndex(f)
      [] k = "Matrix3x2Reader" -> Matrix3x2ReaderIndex(f)
      [] k = "Matrix3x2Writer" -> Matrix3x2WriterIndex(f)
      [] k = "Matrix3x2Array" -> Matrix3x2ArrayGetIndex(f)

\* the index the setter of field f of a view of kind k writes
SetIndex(k, f) ==
    CASE k = "Matrix4x4Writer" -> Matrix4x4WriterIndex(f)
      [] k = "Matrix3x2Writer" -> Matrix3x2WriterIndex(f)
      [] k = "Matrix3x2Array" -> Matrix3x2ArraySetIndex(f)

\* the view of kind k over the elements of the current matrix of its size
ViewOf(h, k) ==
    CASE k = "Matrix4x4Reader" -> Matrix4x4ReaderFromTuple(h, mat4.elements)
      [] k = "Matrix4x4Writer" -> Matrix4x4WriterFromTuple(h, mat4.elements)
      [] k = "Matrix3x2Reader" -> Matrix3x2ReaderFromTuple(h, mat3.elements)
      [] k = "Matrix3x2Writer" -> Matrix3x2WriterFromTuple(h, mat3.elements)
      [] k = "Matrix3x2Array" -> Matrix3x2ArrayFromMatrix3x2(h, mat3)

----------------------------------------------------------------------------
(* Vectors *)

Vector2(x, y) == [x |-> x, y |-> y]
Vector3(x, y, z) == [x |-> x, y |-> y, z |-> z]
Vector4(x, y, z, w) == [x |-> x, y |-> y, z |-> z, w |-> w]

\* Vector3.set
Vector3Set(this, x, y, z) == [this EXCEPT !.x = x, !.y = y, !.z = z]

----------------------------------------------------------------------------
(* Values the operations are called with *)

WriteInts == {I(i) : i \in 0..MaxWrite}

WriteVals == WriteInts \cup {NaN}

Translations ==
    {Vector3(a, b, c) : a \in WriteInts, b \in WriteInts, c \in WriteInts}
        \cup {Vector3(NaN, One, Zero)}

NoRet == [tag |-> "none"]
NumRet(v) == [tag |-> "number", val |-> v]
BoolRet(b) == [tag |-> "boolean", val |-> b]
VecRet(v) == [tag |-> "vector", val |-> v]
ThisRet == [tag |-> "this"]

NoOp == [name |-> "none"]

----------------------------------------------------------------------------
(* The matrix machine: construction, views, accessors, translation, freeze *)

\* the identifiers of the objects held by reference
ObjIds == 1..MaxObjs

\* the slot of an object not constructed yet
NoObj == [class |-> "none"]

\* no vector or plane object was constructed
NoObjects == [id \in ObjIds |-> NoObj]

\* the activations of a method that can be in progress at the same time
CallIds == {1, 2}

\* the frame of an activation that is not in progress
Idle == [pc |-> "idle"]

\* no call is in progress
NoCalls == [c \in CallIds |-> Idle]

\* one Matrix4x4 and one Matrix3x2 were constructed, nothing was called yet
InitMatrices ==
    /\ objs = NoObjects
    /\ calls = NoCalls
    /\ heap = [a \in ArrayIds |->
                 IF a = 1 THEN Matrix4x4Identity
                 ELSE IF a = 2 THEN Matrix3x2Identity ELSE <<>>]
    /\ frozen = {}
    /\ mat4 = [elements |-> 1, frozen |-> FALSE]
    /\ mat3 = [elements |-> 2, frozen |-> FALSE]
    /\ nops = 0

Init ==
    /\ InitMatrices
    /\ vec = Vector3(Zero, Zero, Zero)
    /\ plane = [normal |-> Vector3(Zero, Zero, Zero), d |-> Zero]
    /\ op = NoOp
    /\ ret = NoRet
    /\ err = "none"

\* new Matrix4x4(): this.elements = [1,0,0,0, 0,1,0,0, 0,0,1,0, 0,0,0,1]
Matrix4x4Constructor ==
    /\ nops < MaxOps
    /\ FreeIds(heap) # {}
    /\ LET a == NewId(heap)
       IN  /\ heap' = [heap EXCEPT ![a] = Matrix4x4Identity]
           /\ mat4' = [elements |-> a, frozen |-> FALSE]
    /\ op' = [name |-> "Matrix4x4.constructor", heap |-> heap]
    /\ ret' = ThisRet
    /\ err' = "none"
    /\ nops' = nops + 1
    /\ UNCHANGED <<calls, objs, frozen, mat3, vec, plane>>

\* new Matrix3x2(): this.elements = [1, 0, 0, 0, 1, 0]
Matrix3x2Constructor ==
    /\ nops < MaxOps
    /\ FreeIds(heap) # {}
    /\ LET a == NewId(heap)
       IN  /\ heap' = [heap EXCEPT ![a] = Matrix3x2Identity]
           /\ mat3' = [elements |-> a, frozen |-> FALSE]
    /\ op' = [name |-> "Matrix3x2.constructor", heap |-> heap]
    /\ ret' = ThisRet
    /\ err' = "none"
    /\ nops' = nops + 1
    /\ UNCHANGED <<calls, objs, frozen, mat4, vec, plane>>

\* K.$fromTuple(this.elements).$mij() for every field mij of the view kind k:
\* what each getter of the view returns
ViewRead(k) ==
    /\ LET v == ViewOf(heap, k)
       IN  /\ heap' = v.heap
           /\ ret' = [tag |-> "fields",
                      val |-> [f \in FieldsOf(k) |-> ArrayGet(v.heap, v.ref, GetIndex(k, f))]]
    /\ op' = [name |-> "get", kind |-> k, heap |-> heap]
    /\ err' = "none"
    /\ UNCHANGED <<calls, objs, frozen, mat4, mat3, vec, plane, nops>>

\* K.$fromTuple(this.elements).$mij(value): `return data[index] = value`;
\* an assignment to an element of a frozen array throws in module code
ViewSet(k, f, value) ==
    /\ nops < MaxOps
    /\ LET v == ViewOf(heap, k)
       IN  IF v.ref \in frozen
           THEN /\ err' = "TypeError"
                /\ ret' = NoRet
                /\ heap' = v.heap
           ELSE /\ err' = "none"
                /\ ret' = NumRet(value)
                /\ heap' = ArraySet(v.heap, v.ref, SetIndex(k, f), value)
    /\ op' = [name |-> "set", kind |-> k, field |-> f, value |-> value, heap |-> heap]
    /\ nops' = nops + 1
    /\ UNCHANGED <<calls, objs, frozen, mat4, mat3, vec, plane>>

\* mutant: isIdentity compares the diagonal only
Matrix4x4IsIdentityDiagonal(h, this) ==
    LET v == Matrix4x4ReaderFromTuple(h, this.elements)
        m(f) == ArrayGet(v.heap, v.ref, Matrix4x4ReaderIndex(f))
    IN  /\ StrictEq(m(<<1, 1>>), One) /\ StrictEq(m(<<2, 2>>), One)
        /\ StrictEq(m(<<3, 3>>), One) /\ StrictEq(m(<<4, 4>>), One)

\* mutant: setTranslation writes the fourth column, m14, m24, m34
Matrix4x4SetTranslationColumn(h, this, translation) ==
    LET v == Matrix4x4WriterFromTuple(h, this.elements)
        h1 == ArraySet(v.heap, v.ref, Matrix4x4WriterIndex(<<1, 4>>), translation.x)
        h2 == ArraySet(h1, v.ref, Matrix4x4WriterIndex(<<2, 4>>), translation.y)
    IN  ArraySet(h2, v.ref, Matrix4x4WriterIndex(<<3, 4>>), translation.z)

\* Matrix4x4.isIdentity (a getter): the diagonal first, then the rest
Matrix4x4IsIdentity(h, this) ==
    LET v == Matrix4x4ReaderFromTuple(h, this.elements)
        m(f) == ArrayGet(v.heap, v.ref, Matrix4x4ReaderIndex(f))
    IN  /\ StrictEq(m(<<1, 1>>), One) /\ StrictEq(m(<<2, 2>>), One)
        /\ StrictEq(m(<<3, 3>>), One) /\ StrictEq(m(<<4, 4>>), One)
        /\ StrictEq(m(<<1, 2>>), Zero) /\ StrictEq(m(<<1, 3>>), Zero) /\ StrictEq(m(<<1, 4>>), Zero)
        /\ StrictEq(m(<<2, 1>>), Zero) /\ StrictEq(m(<<2, 3>>), Zero) /\ StrictEq(m(<<2, 4>>), Zero)
        /\ StrictEq(m(<<3, 1>>), Zero) /\ StrictEq(m(<<3, 2>>), Zero) /\ StrictEq(m(<<3, 4>>), Zero)
        /\ StrictEq(m(<<4, 1>>), Zero) /\ StrictEq(m(<<4, 2>>), Zero) /\ StrictEq(m(<<4, 3>>), Zero)

\* Matrix4x4.getTranslation(out): out.set(m41, m42, m43)
Matrix4x4GetTranslation(h, this, out) ==
    LET v == Matrix4x4ReaderFromTuple(h, this.elements)
        m(f) == ArrayGet(v.heap, v.ref, Matrix4x4ReaderIndex(f))
    IN  Vector3Set(out, m(<<4, 1>>), m(<<4, 2>>), m(<<4, 3>>))

\* Matrix4x4.setTranslation(translation): the heap after the three writes
\* m.$m41(translation.x); m.$m42(translation.y); m.$m43(translation.z)
Matrix4x4SetTranslation(h, this, translation) ==
    LET v == Matrix4x4WriterFromTuple(h, this.elements)
        h1 == ArraySet(v.heap, v.ref, Matrix4x4WriterIndex(<<4, 1>>), translation.x)
        h2 == ArraySet(h1, v.ref, Matrix4x4WriterIndex(<<4, 2>>), translation.y)
    IN  ArraySet(h2, v.ref, Matrix4x4WriterIndex(<<4, 3>>), translation.z)

IsIdentity ==
    /\ ret' = BoolRet(Matrix4x4IsIdentity(heap, mat4))
    /\ op' = [name |-> "isIdentity", heap |-> heap]
    /\ err' = "none"
    /\ UNCHANGED <<calls, objs, heap, frozen, mat4, mat3, vec, plane, nops>>

\* getTranslation() allocates the result (out ??= new Vector3()),
\* getTranslation(out) writes it into the caller's vector
GetTranslation(withOut) ==
    /\ IF withOut
       THEN /\ vec' = Matrix4x4GetTranslation(heap, mat4, vec)
            /\ ret' = VecRet(vec')
       ELSE /\ vec' = vec
            /\ ret' = VecRet(Matrix4x4GetTranslation(heap, mat4, Vector3(Zero, Zero, Zero)))
    /\ op' = [name |-> "getTranslation", out |-> withOut, heap |-> heap]
    /\ err' = "none"
    /\ UNCHANGED <<calls, objs, heap, frozen, mat4, mat3, plane, nops>>

\* setTranslation(translation); the first write throws when the elements are frozen
SetTranslation(translation) ==
    /\ nops < MaxOps
    /\ IF mat4.elements \in frozen
       THEN /\ err' = "TypeError"
            /\ ret' = NoRet
            /\ heap' = heap
       ELSE /\ err' = "none"
            /\ ret' = ThisRet
            /\ heap' = Matrix4x4SetTranslation(heap, mat4, translation)
    /\ op' = [name |-> "setTranslation", translation |-> translation, heap |-> heap]
    /\ nops' = nops + 1
    /\ UNCHANGED <<calls, objs, frozen, mat4, mat3, vec, plane>>

\* Matrix4x4.freeze(): Object.freeze(this.elements); return Object.freeze(this)
Matrix4x4Freeze ==
    /\ nops < MaxOps
    /\ frozen' = frozen \cup {mat4.elements}
    /\ mat4' = [mat4 EXCEPT !.frozen = TRUE]
    /\ op' = [name |-> "Matrix4x4.freeze", heap |-> heap]
    /\ ret' = ThisRet
    /\ err' = "none"
    /\ nops' = nops + 1
    /\ UNCHANGED <<calls, objs, heap, mat3, vec, plane>>

\* Matrix3x2.freeze(): Object.freeze(this.elements); return Object.freeze(this)
Matrix3x2Freeze ==
    /\ nops < MaxOps
    /\ frozen' = frozen \cup {mat3.elements}
    /\ mat3' = [mat3 EXCEPT !.frozen = TRUE]
    /\ op' = [name |-> "Matrix3x2.freeze", heap |-> heap]
    /\ ret' = ThisRet
    /\ err' = "none"
    /\ nops' = nops + 1
    /\ UNCHANGED <<calls, objs, heap, mat4, vec, plane>>

Next ==
    \/ Matrix4x4Constructor
    \/ Matrix3x2Constructor
    \/ \E k \in ViewKinds : ViewRead(k)
    \/ \E k \in WriterKinds : \E f \in FieldsOf(k) : \E value \in WriteVals : ViewSet(k, f, value)
    \/ IsIdentity
    \/ \E withOut \in BOOLEAN : GetTranslation(withOut)
    \/ \E translation \in Translations : SetTranslation(translation)
    \/ Matrix4x4Freeze
    \/ Matrix3x2Freeze

Spec == Init /\ [][Next]_vars

----------------------------------------------------------------------------
(* Properties of the accessor layer and of the matrices *)

\* the documented offset of field mij: column-major, (i-1) + (j-1)*rows
Rows(k) == IF Is4x4(k) THEN 4 ELSE 3

Documented(k, f) == (f[1] - 1) + (f[2] - 1) * Rows(k)

\* the matrix a view of kind k is taken over, and its backing sequence
MatrixOf(k) == IF Is4x4(k) THEN mat4 ELSE mat3

Elements(k) == heap[MatrixOf(k).elements]

SameSize(k1, k2) == Is4x4(k1) = Is4x4(k2)

\* C1: every getter and every setter of every view addresses the documented
\* column-major offset (i-1) + (j-1)*rows of its field; the fields of one
\* matrix name each index of the sequence exactly once; and accordingly a
\* read returns, and a write stores, the element at that offset.
C1_AccessorOffsets ==
    /\ \A k \in ViewKinds : \A f \in FieldsOf(k) : GetIndex(k, f) = Documented(k, f)
    /\ \A k \in WriterKinds : \A f \in FieldsOf(k) : SetIndex(k, f) = Documented(k, f)
    /\ \A k \in ViewKinds :
          /\ Cardinality({GetIndex(k, f) : f \in FieldsOf(k)}) = Cardinality(FieldsOf(k))
          /\ {GetIndex(k, f) : f \in FieldsOf(k)} = 0..(Len(Elements(k)) - 1)
    /\ op.name = "get" =>
          \A f \in FieldsOf(op.kind) : ret.val[f] = Elements(op.kind)[Documented(op.kind, f) + 1]
    /\ (op.name = "set" /\ err = "none") =>
          Elements(op.kind)[Documented(op.kind, op.field) + 1] = op.value

\* a read through the reader of m12 returned the 1 stored at index 4
C1_Witness ==
    /\ op.name = "get" /\ op.kind = "Matrix4x4Reader"
    /\ ret.val[<<1, 2>>] = One
    /\ Elements("Matrix4x4Reader")[5] = One

\* C2: a write through a writer accessor changes the documented index of the
\* matrix's sequence and no other element of any array, and returns the value
\* written; a read through any view changes no array.
C2_WriteFrame ==
    /\ (op.name = "set" /\ err = "none") =>
          /\ ret = NumRet(op.value)
          /\ \A a \in ArrayIds :
                /\ Len(heap[a]) = Len(op.heap[a])
                /\ \A i \in 1..Len(heap[a]) :
                      heap[a][i] =
                         IF a = MatrixOf(op.kind).elements
                               /\ i = Documented(op.kind, op.field) + 1
                         THEN op.value
                         ELSE op.heap[a][i]
    /\ op.name = "get" => heap = op.heap

\* writing 1 through $m13 of the 4x4 writer changed index 8
C2_Witness ==
    /\ op.name = "set" /\ err = "none"
    /\ op.kind = "Matrix4x4Writer" /\ op.field = <<1, 3>>
    /\ op.heap[mat4.elements][9] = Zero
    /\ heap[mat4.elements][9] = One

\* C3: after a write of v to field mij through a writer view, reading mij
\* through every view over the same matrix returns v, and so does reading the
\* matrix's elements at the documented offset; in every state all views over
\* a matrix and the matrix's own elements agree on every field.
C3_RoundTrip ==
    /\ (op.name = "set" /\ err = "none") =>
          /\ Elements(op.kind)[Documented(op.kind, op.field) + 1] = op.value
          /\ \A k \in ViewKinds : SameSize(k, op.kind) =>
                LET v == ViewOf(heap, k)
                IN  ArrayGet(v.heap, v.ref, GetIndex(k, op.field)) = op.value
    /\ \A k \in ViewKinds :
          /\ ViewOf(heap, k).ref = MatrixOf(k).elements
          /\ ViewOf(heap, k).heap = heap
    /\ op.name = "get" =>
          \A f \in FieldsOf(op.kind) : ret.val[f] = Elements(op.kind)[Documented(op.kind, f) + 1]

\* a NaN written through the 4x4 writer is what the 4x4 reader then returns
C3_Witness ==
    /\ op.name = "get" /\ op.kind = "Matrix4x4Reader"
    /\ nops = 1
    /\ ret.val[<<4, 3>>] = NaN

\* C4: a freshly constructed Matrix4x4 is the identity (isIdentity is true and
\* getTranslation() is (0,0,0)); a freshly constructed Matrix3x2 has elements
\* [1,0,0,0,1,0].
C4_FreshIdentity ==
    /\ op.name \in {"none", "Matrix4x4.constructor"} =>
          /\ Matrix4x4IsIdentity(heap, mat4)
          /\ Matrix4x4GetTranslation(heap, mat4, Vector3(Zero, Zero, Zero))
                = Vector3(Zero, Zero, Zero)
          /\ heap[mat4.elements] =
                [i \in 1..16 |-> IF i \in {1, 6, 11, 16} THEN One ELSE Zero]
    /\ op.name \in {"none", "Matrix3x2.constructor"} =>
          heap[mat3.elements] = <<One, Zero, Zero, Zero, One, Zero>>
    /\ (op.name = "isIdentity" /\ nops = 0) => ret = BoolRet(TRUE)
    /\ (op.name = "getTranslation" /\ nops = 0) => ret = VecRet(Vector3(Zero, Zero, Zero))

\* a second Matrix4x4 was constructed, over a new array
C4_Witness ==
    /\ op.name = "Matrix4x4.constructor"
    /\ mat4.elements # 1
    /\ Matrix4x4IsIdentity(heap, mat4)

\* C5: in every reachable state the backing sequence of the Matrix4x4 has
\* exactly 16 elements and that of the Matrix3x2 exactly 6, and so has every
\* array ever allocated for one.
C5_FixedLength ==
    /\ Len(heap[mat4.elements]) = 16
    /\ Len(heap[mat3.elements]) = 6
    /\ \A a \in Allocated(heap) : Len(heap[a]) \in {6, 16}

\* the last field of the 4x4 was written (m44, index 15) on a 16-element array
C5_Witness ==
    /\ op.name = "set" /\ err = "none"
    /\ op.kind = "Matrix4x4Writer" /\ op.field = <<4, 4>>
    /\ Len(heap[mat4.elements]) = 16

----------------------------------------------------------------------------
(* Vector2 / Vector3 / Vector4: clamp *)

\* Vector2.clamp(min, max), in place: the new components of this
Vector2Clamp(this, min, max) ==
    LET x1 == IF Gt(this.x, max.x) THEN max.x ELSE this.x
        x2 == IF Lt(x1, min.x) THEN min.x ELSE x1
        y1 == IF Gt(this.y, max.y) THEN max.y ELSE this.y
        y2 == IF Lt(y1, min.y) THEN min.y ELSE y1
    IN  Vector2(x2, y2)

\* Vector2.clamp(value1, min, max), static: the vector returned
Vector2ClampStatic(value1, min, max) ==
    LET x1 == IF Gt(value1.x, max.x) THEN max.x ELSE value1.x
        x2 == IF Lt(x1, min.x) THEN min.x ELSE x1
        y1 == IF Gt(value1.y, max.y) THEN max.y ELSE value1.y
        y2 == IF Lt(y1, min.y) THEN min.y ELSE y1
    IN  Vector2(x2, y2)

\* mutant: the min bound is applied before the max bound
Vector3ClampMinFirst(this, min, max) ==
    LET x1 == IF Lt(this.x, min.x) THEN min.x ELSE this.x
        x2 == IF Gt(x1, max.x) THEN max.x ELSE x1
        y1 == IF Lt(this.y, min.y) THEN min.y ELSE this.y
        y2 == IF Gt(y1, max.y) THEN max.y ELSE y1
        z1 == IF Lt(this.z, min.z) THEN min.z ELSE this.z
        z2 == IF Gt(z1, max.z) THEN max.z ELSE z1
    IN  Vector3(x2, y2, z2)

\* Vector3.clamp(min, max), in place: the new components of this
Vector3Clamp(this, min, max) ==
    LET x1 == IF Gt(this.x, max.x) THEN max.x ELSE this.x
        x2 == IF Lt(x1, min.x) THEN min.x ELSE x1
        y1 == IF Gt(this.y, max.y) THEN max.y ELSE this.y
        y2 == IF Lt(y1, min.y) THEN min.y ELSE y1
        z1 == IF Gt(this.z, max.z) THEN max.z ELSE this.z
        z2 == IF Lt(z1, min.z) THEN min.z ELSE z1
    IN  Vector3(x2, y2, z2)

\* Vector3.clamp(value1, min, max), static: the vector returned
Vector3ClampStatic(value1, min, max) ==
    LET x1 == IF Gt(value1.x, max.x) THEN max.x ELSE value1.x
        x2 == IF Lt(x1, min.x) THEN min.x ELSE x1
        y1 == IF Gt(value1.y, max.y) THEN max.y ELSE value1.y
        y2 == IF Lt(y1, min.y) THEN min.y ELSE y1
        z1 == IF Gt(value1.z, max.z) THEN max.z ELSE value1.z
        z2 == IF Lt(z1, min.z) THEN min.z ELSE z1
    IN  Vector3(x2, y2, z2)

\* mutant: the w component is bounded by the bounds of z
Vector4ClampWrongBounds(this, min, max) ==
    LET x1 == IF Gt(this.x, max.x) THEN max.x ELSE this.x
        x2 == IF Lt(x1, min.x) THEN min.x ELSE x1
        y1 == IF Gt(this.y, max.y) THEN max.y ELSE this.y
        y2 == IF Lt(y1, min.y) THEN min.y ELSE y1
        z1 == IF Gt(this.z, max.z) THEN max.z ELSE this.z
        z2 == IF Lt(z1, min.z) THEN min.z ELSE z1
        w1 == IF Gt(this.w, max.z) THEN max.z ELSE this.w
        w2 == IF Lt(w1, min.z) THEN min.z ELSE w1
    IN  Vector4(x2, y2, z2, w2)

\* Vector4.clamp(min, max), in place: the new components of this
Vector4Clamp(this, min, max) ==
    LET x1 == IF Gt(this.x, max.x) THEN max.x ELSE this.x
        x2 == IF Lt(x1, min.x) THEN min.x ELSE x1
        y1 == IF Gt(this.y, max.y) THEN max.y ELSE this.y
        y2 == IF Lt(y1, min.y) THEN min.y ELSE y1
        z1 == IF Gt(this.z, max.z) THEN max.z ELSE this.z
        z2 == IF Lt(z1, min.z) THEN min.z ELSE z1
        w1 == IF Gt(this.w, max.w) THEN max.w ELSE this.w
        w2 == IF Lt(w1, min.w) THEN min.w ELSE w1
    IN  Vector4(x2, y2, z2, w2)

\* Vector4.clamp(value1, min, max), static: the vector returned
Vector4ClampStatic(value1, min, max) ==
    LET x1 == IF Gt(value1.x, max.x) THEN max.x ELSE value1.x
        x2 == IF Lt(x1, min.x) THEN min.x ELSE x1
        y1 == IF Gt(value1.y, max.y) THEN max.y ELSE value1.y
        y2 == IF Lt(y1, min.y) THEN min.y ELSE y1
        z1 == IF Gt(value1.z, max.z) THEN max.z ELSE value1.z
        z2 == IF Lt(z1, min.z) THEN min.z ELSE z1
        w1 == IF Gt(value1.w, max.w) THEN max.w ELSE value1.w
        w2 == IF Lt(w1, min.w) THEN min.w ELSE w1
    IN  Vector4(x2, y2, z2, w2)

\* the values clamp is called with
ClampVals == {I(i) : i \in -1..MaxClamp} \cup {NaN, Infinity, NegInfinity}

\* the vector of dimension dim whose component k is a and whose others are b
Spread(dim, k, a, b) ==
    LET c(i) == IF i = k THEN a ELSE b
    IN  CASE dim = 2 -> Vector2(c(1), c(2))
          [] dim = 3 -> Vector3(c(1), c(2), c(3))
          [] dim = 4 -> Vector4(c(1), c(2), c(3), c(4))

\* the calls of clamp on vectors of dimension dim: component k takes every
\* (value, min, max) of ClampVals; the other components either take the same
\* three values or a value 1 well inside the bounds -1 and MaxClamp
ClampCalls(dim) ==
    {[this |-> Spread(dim, k, v, IF same THEN v ELSE One),
      min |-> Spread(dim, k, mn, IF same THEN mn ELSE I(-1)),
      max |-> Spread(dim, k, mx, IF same THEN mx ELSE I(MaxClamp))] :
        k \in 1..dim, v \in ClampVals, mn \in ClampVals, mx \in ClampVals, same \in BOOLEAN}

\* the in-place clamp of the vector class of dimension dim
ClampOf(dim, this, min, max) ==
    CASE dim = 2 -> Vector2Clamp(this, min, max)
      [] dim = 3 -> Vector3Clamp(this, min, max)
      [] dim = 4 -> Vector4Clamp(this, min, max)

\* the static clamp of the vector class of dimension dim
ClampStaticOf(dim, value1, min, max) ==
    CASE dim = 2 -> Vector2ClampStatic(value1, min, max)
      [] dim = 3 -> Vector3ClampStatic(value1, min, max)
      [] dim = 4 -> Vector4ClampStatic(value1, min, max)

ClassName(dim) == CASE dim = 2 -> "Vector2" [] dim = 3 -> "Vector3" [] dim = 4 -> "Vector4"

\* the dimension of the vector class named class
DimOf(class) == CHOOSE dim \in 2..4 : ClassName(dim) = class

\* vec was constructed, with the vectors args, and nothing was called on it yet
Constructed(nargs) == op.name = "constructor" /\ Len(op.args) = nargs

\* vec.clamp(min, max): this takes the clamped components, this is returned
Clamp ==
    /\ Constructed(2)
    /\ vec' = ClampOf(DimOf(op.class), vec, op.args[1], op.args[2])
    /\ ret' = ThisRet
    /\ err' = "none"
    /\ op' = [name |-> "clamp", class |-> op.class, static |-> FALSE,
              this |-> vec, min |-> op.args[1], max |-> op.args[2]]
    /\ UNCHANGED <<calls, objs, heap, frozen, mat4, mat3, plane, nops>>

\* VectorN.clamp(vec, min, max): a new vector is returned, vec is not written
ClampStatic ==
    /\ Constructed(2)
    /\ vec' = vec
    /\ ret' = VecRet(ClampStaticOf(DimOf(op.class), vec, op.args[1], op.args[2]))
    /\ err' = "none"
    /\ op' = [name |-> "clamp", class |-> op.class, static |-> TRUE,
              this |-> vec, min |-> op.args[1], max |-> op.args[2]]
    /\ UNCHANGED <<calls, objs, heap, frozen, mat4, mat3, plane, nops>>

----------------------------------------------------------------------------
(* Vector2 / Vector3 / Vector4: normalize, in place *)

\* the message of the Error normalize throws
ZeroLengthError == "Cannot normalize a vector with length 0."

\* Vector2.normalize(): this.x *= invNorm; this.y *= invNorm (the length is not tested)
Vector2Normalize(this) ==
    LET ls == Add(Mul(this.x, this.x), Mul(this.y, this.y))
        invNorm == Div(One, Sqrt(ls))
    IN  [err |-> "none", this |-> Vector2(Mul(this.x, invNorm), Mul(this.y, invNorm))]

\* mutant: the test of the length is missing
Vector3NormalizeUnchecked(this) ==
    LET ls == Add(Add(Mul(this.x, this.x), Mul(this.y, this.y)), Mul(this.z, this.z))
        invLength == Div(One, Sqrt(ls))
    IN  [err |-> "none",
         this |-> Vector3(Mul(this.x, invLength), Mul(this.y, invLength), Mul(this.z, invLength))]

\* Vector3.normalize(): throws when length === 0, else scales by 1 / length
Vector3Normalize(this) ==
    LET ls == Add(Add(Mul(this.x, this.x), Mul(this.y, this.y)), Mul(this.z, this.z))
        length == Sqrt(ls)
        invLength == Div(One, length)
    IN  IF StrictEq(length, Zero)
        THEN [err |-> ZeroLengthError, this |-> this]
        ELSE [err |-> "none",
              this |-> Vector3(Mul(this.x, invLength), Mul(this.y, invLength),
                               Mul(this.z, invLength))]

\* Vector4.normalize(): throws when length === 0, else scales by 1 / length
Vector4Normalize(this) ==
    LET ls == Add(Add(Add(Mul(this.x, this.x), Mul(this.y, this.y)), Mul(this.z, this.z)),
                  Mul(this.w, this.w))
        length == Sqrt(ls)
        invLength == Div(One, length)
    IN  IF StrictEq(length, Zero)
        THEN [err |-> ZeroLengthError, this |-> this]
        ELSE [err |-> "none",
              this |-> Vector4(Mul(this.x, invLength), Mul(this.y, invLength),
                               Mul(this.z, invLength), Mul(this.w, invLength))]

\* the in-place normalize of the vector class of dimension dim
NormalizeOf(dim, this) ==
    CASE dim = 2 -> Vector2Normalize(this)
      [] dim = 3 -> Vector3Normalize(this)
      [] dim = 4 -> Vector4Normalize(this)

\* lengthSquared(): the sum of the squares of the components
LengthSquared(dim, v) ==
    LET xy == Add(Mul(v.x, v.x), Mul(v.y, v.y))
    IN  CASE dim = 2 -> xy
          [] dim = 3 -> Add(xy, Mul(v.z, v.z))
          [] dim = 4 -> Add(Add(xy, Mul(v.z, v.z)), Mul(v.w, v.w))

IsSquare(n) == FloorSqrt(n) * FloorSqrt(n) = n

\* the numbers Math.sqrt is modelled on: those whose root is rational
HasRationalSqrt(a) == a.d = 0 \/ a.n < 0 \/ (IsSquare(a.n) /\ IsSquare(a.d))

\* the values normalize is called with
NormVals == {I(i) : i \in -MaxNorm..MaxNorm} \cup {NaN, Infinity}

VectorsOver(dim, S) ==
    CASE dim = 2 -> {Vector2(a, b) : a \in S, b \in S}
      [] dim = 3 -> {Vector3(a, b, c) : a \in S, b \in S, c \in S}
      [] dim = 4 -> {Vector4(a, b, c, e) : a \in S, b \in S, c \in S, e \in S}

\* the vectors normalize is called on: those whose length is rational
NormalizeInputs(dim) ==
    {v \in VectorsOver(dim, NormVals) : HasRationalSqrt(LengthSquared(dim, v))}

\* vec.normalize(): this is returned, or the Error is thrown
Normalize ==
    /\ Constructed(0)
    /\ LET r == NormalizeOf(DimOf(op.class), vec)
       IN  /\ vec' = r.this
           /\ err' = r.err
           /\ ret' = IF r.err = "none" THEN ThisRet ELSE NoRet
    /\ op' = [name |-> "normalize", class |-> op.class, this |-> vec]
    /\ UNCHANGED <<calls, objs, heap, frozen, mat4, mat3, plane, nops>>

\* a vector vec was constructed, either with the two bounds of a clamp call
\* or, for normalize, alone
InitVector ==
    /\ InitMatrices
    /\ plane = [normal |-> Vector3(Zero, Zero, Zero), d |-> Zero]
    /\ ret = NoRet
    /\ err = "none"
    /\ \E dim \in 2..4 :
          \/ \E call \in ClampCalls(dim) :
                /\ vec = call.this
                /\ op = [name |-> "constructor", class |-> ClassName(dim),
                         args |-> <<call.min, call.max>>]
          \/ \E this \in NormalizeInputs(dim) :
                /\ vec = this
                /\ op = [name |-> "constructor", class |-> ClassName(dim), args |-> <<>>]

NextVector ==
    \/ Clamp
    \/ ClampStatic
    \/ Normalize

SpecVector == InitVector /\ [][NextVector]_vars

----------------------------------------------------------------------------
(* Claims C6 - C8, checked under SpecVector *)

\* the vector a clamp call produced: this for the instance form, the returned
\* vector for the static form
ClampResult == IF op.static THEN ret.val ELSE vec

\* C6 (amended): for clamp on Vector2, Vector3 and Vector4, instance and static
\* forms, and every component whose input value is not NaN: if min > max the
\* result is min, and if min <= max the result lies in [min, max]; a component
\* whose input value is NaN stays NaN.  The instance form returns this, the
\* static form does not write its argument.
C6_ClampMaxThenMin ==
    op.name = "clamp" =>
        /\ \A c \in DOMAIN op.this :
              LET v == op.this[c]
                  mn == op.min[c]
                  mx == op.max[c]
                  r == ClampResult[c]
              IN  /\ (~IsNaN(v) /\ Gt(mn, mx)) => r = mn
                  /\ (~IsNaN(v) /\ Le(mn, mx)) => (Le(mn, r) /\ Le(r, mx))
                  /\ IsNaN(v) => IsNaN(r)
        /\ DOMAIN ClampResult = DOMAIN op.this
        /\ op.static => vec = op.this
        /\ ~op.static => ret = ThisRet

\* C6 as stated: for every input value, min > max gives min and min <= max
\* gives a result in [min, max].
C6_ClampEveryInput ==
    op.name = "clamp" =>
        \A c \in DOMAIN op.this :
            LET mn == op.min[c]
                mx == op.max[c]
                r == ClampResult[c]
            IN  /\ Gt(mn, mx) => r = mn
                /\ Le(mn, mx) => (Le(mn, r) /\ Le(r, mx))

\* a static Vector4 clamp whose w component had min > max and came out as min,
\* the other components staying inside their bounds
C6_Witness ==
    /\ op.name = "clamp" /\ op.class = "Vector4" /\ op.static
    /\ ~IsNaN(op.this.w) /\ Gt(op.this.w, op.max.w)
    /\ Gt(op.min.w, op.max.w)
    /\ ret.val.w = op.min.w
    /\ ret.val.x = op.this.x /\ ret.val.x # op.min.x

\* the call Vector3(5,5,5).clamp(min = (0,0,0), max = (-1,-1,-1))
BoundOrderCall ==
    /\ op.name = "clamp" /\ op.class = "Vector3" /\ ~op.static
    /\ op.this = Vector3(I(5), I(5), I(5))
    /\ op.min = Vector3(Zero, Zero, Zero)
    /\ op.max = Vector3(I(-1), I(-1), I(-1))

\* C7 (amended): clamping the Vector3 (5,5,5) with min = (0,0,0) and
\* max = (-1,-1,-1) yields (0,0,0): the max bound takes 5 to -1, then the min
\* bound takes -1 to 0.
C7_BoundOrderLaw == BoundOrderCall => vec = Vector3(Zero, Zero, Zero)

\* C7 as stated: the same call yields (-1,-1,-1).
C7_BoundOrderMaxWins == BoundOrderCall => vec = Vector3(I(-1), I(-1), I(-1))

\* the call was made and this is (0,0,0)
C7_Witness == BoundOrderCall /\ vec = Vector3(Zero, Zero, Zero) /\ ret = ThisRet

\* C8 as stated: for each of Vector2, Vector3 and Vector4, normalize() on a
\* vector whose length is exactly 0 fails with the zero-length error and leaves
\* every component unchanged.
C8_ZeroLengthFails ==
    (/\ op.name = "normalize"
     /\ StrictEq(Sqrt(LengthSquared(DimOf(op.class), op.this)), Zero))
        => (err = ZeroLengthError /\ vec = op.this)

\* Vector2(0,0).normalize() returned this with NaN stored in x and y
C8_Witness ==
    /\ op.name = "normalize" /\ op.class = "Vector2"
    /\ op.this = Vector2(Zero, Zero)
    /\ err = "none" /\ ret = ThisRet
    /\ IsNaN(vec.x) /\ IsNaN(vec.y)

----------------------------------------------------------------------------
(* Plane: construction and normalize *)

\* new Plane(normal, d): the normal is cloned, so the plane owns its components
Plane(normal, d) == [normal |-> Vector3(normal.x, normal.y, normal.z), d |-> d]

\* a < fltEpsilon, fltEpsilon = 1.192092896e-07 = 1192092896 / 10^16;
\* both sides are scaled by 10^8 once a is known to be below 10^-6
LtFltEpsilon(a) ==
    /\ Lt(a, Num(1, 1000000))
    /\ Lt(Mul(a, I(100000000)), Num(1192092896, 100000000))

\* mutant: the test f === 0.0 is missing
PlaneNormalizeUnchecked(this) ==
    LET normal == this.normal
        f == Add(Add(Mul(normal.x, normal.x), Mul(normal.y, normal.y)),
                 Mul(normal.z, normal.z))
    IN  IF LtFltEpsilon(Abs(Sub(f, One)))
        THEN [err |-> "none", this |-> this]
        ELSE LET fInv == Div(One, Sqrt(f))
             IN  [err |-> "none",
                  this |-> [normal |-> Vector3(Mul(normal.x, fInv), Mul(normal.y, fInv),
                                               Mul(normal.z, fInv)),
                            d |-> Mul(this.d, fInv)]]

\* mutant: d is not scaled
PlaneNormalizeKeepD(this) ==
    LET normal == this.normal
        f == Add(Add(Mul(normal.x, normal.x), Mul(normal.y, normal.y)),
                 Mul(normal.z, normal.z))
    IN  IF LtFltEpsilon(Abs(Sub(f, One)))
        THEN [err |-> "none", this |-> this]
        ELSE IF StrictEq(f, Zero)
        THEN [err |-> ZeroLengthError, this |-> this]
        ELSE LET fInv == Div(One, Sqrt(f))
             IN  [err |-> "none",
                  this |-> [normal |-> Vector3(Mul(normal.x, fInv), Mul(normal.y, fInv),
                                               Mul(normal.z, fInv)),
                            d |-> this.d]]

\* Plane.normalize(): returns early when |f - 1| < fltEpsilon, throws when
\* f === 0, else multiplies normal.x, normal.y, normal.z and d by 1 / sqrt(f)
PlaneNormalize(this) ==
    LET normal == this.normal
        f == Add(Add(Mul(normal.x, normal.x), Mul(normal.y, normal.y)),
                 Mul(normal.z, normal.z))
    IN  IF LtFltEpsilon(Abs(Sub(f, One)))
        THEN [err |-> "none", this |-> this]
        ELSE IF StrictEq(f, Zero)
        THEN [err |-> ZeroLengthError, this |-> this]
        ELSE LET fInv == Div(One, Sqrt(f))
             IN  [err |-> "none",
                  this |-> [normal |-> Vector3(Mul(normal.x, fInv), Mul(normal.y, fInv),
                                               Mul(normal.z, fInv)),
                            d |-> Mul(this.d, fInv)]]

\* normals whose squared length is not 1 but within fltEpsilon of it:
\* 1 + 1/4000^2, 1 + 1/2897^2 and 1 - 1/2931^2
NearUnitNormals ==
    {Vector3(One, Num(1, 4000), Zero),
     Vector3(Zero, Num(1, 2897), One),
     Vector3(Num(2906, 2931), Num(382, 2931), Zero)}

\* normals of rational length close to 1 but further than fltEpsilon from it,
\* and a unit normal that is not an axis
OffUnitNormals ==
    {Vector3(Num(1001, 1000), Zero, Zero),
     Vector3(Zero, Zero, Num(-999, 1000)),
     Vector3(Num(3, 5), Zero, Num(4, 5))}

\* the normals planes are constructed with
PlaneNormals == NormalizeInputs(3) \cup NearUnitNormals \cup OffUnitNormals

\* the distances planes are constructed with
PlaneDistances == {I(i) : i \in -1..MaxNorm} \cup {NaN}

\* plane.normalize(): this is returned, or the Error is thrown
NormalizePlane ==
    /\ LET r == PlaneNormalize(plane)
       IN  /\ plane' = r.this
           /\ err' = r.err
           /\ ret' = IF r.err = "none" THEN ThisRet ELSE NoRet
    /\ op' = [name |-> "Plane.normalize", this |-> plane]
    /\ UNCHANGED <<calls, objs, heap, frozen, mat4, mat3, vec, nops>>

\* new Plane(normal, d) was constructed
InitPlane ==
    /\ InitMatrices
    /\ vec = Vector3(Zero, Zero, Zero)
    /\ \E normal \in PlaneNormals : \E d \in PlaneDistances : plane = Plane(normal, d)
    /\ op = [name |-> "Plane.constructor"]
    /\ ret = NoRet
    /\ err = "none"

NextPlane == NormalizePlane

SpecPlane == InitPlane /\ [][NextPlane]_vars

----------------------------------------------------------------------------
(* Claims C9 - C10, checked under SpecPlane *)

\* the squared length of the normal of a plane
NormalLengthSquared(p) == LengthSquared(3, p.normal)

\* C9: Plane.normalize() on a plane whose normal has squared length exactly 0
\* fails with the zero-length error, and the normal (x, y, z) and d are all
\* as they were before the call.
C9_ZeroNormalFails ==
    (op.name = "Plane.normalize" /\ StrictEq(NormalLengthSquared(op.this), Zero))
        => (err = ZeroLengthError /\ ret = NoRet /\ plane = op.this)

\* normalize() failed on a plane of zero normal and non-zero d
C9_Witness ==
    /\ op.name = "Plane.normalize"
    /\ op.this.normal = Vector3(Zero, Zero, Zero)
    /\ op.this.d = I(-1)
    /\ err = ZeroLengthError
    /\ plane = op.this

\* C10: when the squared length f of the normal is within 1.192092896e-07 of 1
\* (in particular exactly 1), normalize() changes neither the normal nor d and
\* returns the same plane; otherwise, f not being zero, normal.x, normal.y,
\* normal.z and d are each multiplied by the one factor 1 / sqrt(f).
C10_EarlyOutOrScale ==
    op.name = "Plane.normalize" =>
        LET pre == op.this
            f == NormalLengthSquared(pre)
            near == LtFltEpsilon(Abs(Sub(f, One)))
        IN  /\ StrictEq(f, One) => near
            /\ near => (plane = pre /\ ret = ThisRet /\ err = "none")
            /\ (~near /\ ~StrictEq(f, Zero)) =>
                  LET k == Div(One, Sqrt(f))
                  IN  /\ plane.normal.x = Mul(pre.normal.x, k)
                      /\ plane.normal.y = Mul(pre.normal.y, k)
                      /\ plane.normal.z = Mul(pre.normal.z, k)
                      /\ plane.d = Mul(pre.d, k)
                      /\ ret = ThisRet /\ err = "none"

\* normalize() returned early on a normal of squared length 1 - 1/2931^2,
\* leaving a d other than 0 as it was
C10_Witness ==
    /\ op.name = "Plane.normalize"
    /\ op.this.normal = Vector3(Num(2906, 2931), Num(382, 2931), Zero)
    /\ op.this.d = I(-1)
    /\ plane = op.this
    /\ ret = ThisRet

----------------------------------------------------------------------------
(* Vector objects held by reference: freeze, mutating methods, clone *)

VectorClasses == {"Vector2", "Vector3", "Vector4"}

\* a vector instance: its class, its fields, whether Object.freeze was called
\* on it, and the name of the static property holding it ("" if none does)
VectorObject(class, fields, isFrozen, static) ==
    [class |-> class, f |-> fields, frozen |-> isFrozen, static |-> static]

VectorIds(o) == {id \in ObjIds : o[id].class \in VectorClasses}

FreeObjIds(o) == {id \in ObjIds : o[id] = NoObj}

\* the identifier a new object gets
NewObjId(o) == CHOOSE id \in FreeObjIds(o) : \A other \in FreeObjIds(o) : id <= other

\* Object.freeze(this)
ObjectFreeze(o, id) == [o EXCEPT ![id].frozen = TRUE]

\* mutant: the assignments go through on a frozen object
AssignFieldsUnchecked(o, id, fields) ==
    [err |-> "none", objs |-> [o EXCEPT ![id].f = fields]]

\* this.x = ...; this.y = ...; (module code is strict: the first assignment
\* to a field of a frozen object throws a TypeError and nothing is written)
AssignFields(o, id, fields) ==
    IF o[id].frozen
    THEN [err |-> "TypeError", objs |-> o]
    ELSE [err |-> "none", objs |-> [o EXCEPT ![id].f = fields]]

\* the names of the static instances of the vector class of dimension dim
StaticNames(dim) ==
    {"zero", "one", "unitX", "unitY"}
        \cup (IF dim >= 3 THEN {"unitZ"} ELSE {})
        \cup (IF dim = 4 THEN {"unitW"} ELSE {})

\* the arguments of the constructor call of a static instance
StaticValue(dim, name) ==
    CASE name = "zero" -> Spread(dim, 0, One, Zero)
      [] name = "one" -> Spread(dim, 0, Zero, One)
      [] name = "unitX" -> Spread(dim, 1, One, Zero)
      [] name = "unitY" -> Spread(dim, 2, One, Zero)
      [] name = "unitZ" -> Spread(dim, 3, One, Zero)
      [] name = "unitW" -> Spread(dim, 4, One, Zero)

\* mutant: the static instance is constructed but not frozen
StaticInstanceUnfrozen(dim, name) ==
    VectorObject(ClassName(dim), StaticValue(dim, name), FALSE, name)

\* public static readonly zero = new VectorN(0, ...).freeze(), and so on
StaticInstance(dim, name) ==
    VectorObject(ClassName(dim), StaticValue(dim, name), TRUE, name)

\* set(x, y, z, w) called with the arguments a, b, a, b
VectorSet(dim, a, b) ==
    CASE dim = 2 -> Vector2(a, b)
      [] dim = 3 -> Vector3(a, b, a)
      [] dim = 4 -> Vector4(a, b, a, b)

\* add(other): this.x += other.x, ...
VectorAdd(dim, this, other) ==
    CASE dim = 2 -> Vector2(Add(this.x, other.x), Add(this.y, other.y))
      [] dim = 3 -> Vector3(Add(this.x, other.x), Add(this.y, other.y), Add(this.z, other.z))
      [] dim = 4 -> Vector4(Add(this.x, other.x), Add(this.y, other.y),
                            Add(this.z, other.z), Add(this.w, other.w))

\* equals(other): this.x === other.x && this.y === other.y && ...
VectorEquals(dim, this, other) ==
    /\ StrictEq(this.x, other.x)
    /\ StrictEq(this.y, other.y)
    /\ dim >= 3 => StrictEq(this.z, other.z)
    /\ dim = 4 => StrictEq(this.w, other.w)

\* mutant: clone returns this
VectorCloneAlias(o, id) == [objs |-> o, ref |-> id]

\* clone(): return new VectorN(this.x, this.y, ...)
VectorClone(o, id) ==
    LET new == NewObjId(o)
    IN  [objs |-> [o EXCEPT ![new] = VectorObject(o[id].class, o[id].f, FALSE, "")],
         ref |-> new]

\* the object an operation returned
ObjRet(id) == [tag |-> "object", val |-> id]

\* the values the methods of the objects are called with
ObjVals == {I(i) : i \in 0..MaxWrite} \cup {NaN}

\* the vectors constructed by the caller
CallerVectors(dim) == {Spread(dim, 1, I(2), One), Spread(dim, 2, NaN, Zero)}

\* a call of a mutating method on the vector id: r is the outcome of its assignments
CallOnVector(name, id, r) ==
    /\ nops < MaxCalls
    /\ objs' = r.objs
    /\ err' = r.err
    /\ ret' = IF r.err = "none" THEN ThisRet ELSE NoRet
    /\ op' = [name |-> name, this |-> id]
    /\ nops' = nops + 1
    /\ UNCHANGED <<calls, heap, frozen, mat4, mat3, vec, plane>>

\* v.freeze()
FreezeVector(id) ==
    CallOnVector("Vector.freeze", id, [err |-> "none", objs |-> ObjectFreeze(objs, id)])

\* v.set(a, b, ...)
SetVector(id, a, b) ==
    CallOnVector("Vector.set", id,
                 AssignFields(objs, id, VectorSet(DimOf(objs[id].class), a, b)))

\* v.x = a, written by the caller
WriteVectorX(id, a) ==
    CallOnVector("Vector.x=", id, AssignFields(objs, id, [objs[id].f EXCEPT !.x = a]))

\* v.copy(value)
CopyVector(id, value) ==
    /\ objs[value].class = objs[id].class
    /\ CallOnVector("Vector.copy", id, AssignFields(objs, id, objs[value].f))

\* v.add(other)
AddVector(id, other) ==
    /\ objs[other].class = objs[id].class
    /\ CallOnVector("Vector.add", id,
                    AssignFields(objs, id,
                                 VectorAdd(DimOf(objs[id].class), objs[id].f, objs[other].f)))

\* v.normalize(): the length is tested (Vector3, Vector4) before the assignments
NormalizeVector(id) ==
    LET dim == DimOf(objs[id].class)
        r == NormalizeOf(dim, objs[id].f)
    IN  /\ HasRationalSqrt(LengthSquared(dim, objs[id].f))
        /\ CallOnVector("Vector.normalize", id,
                        IF r.err # "none" THEN [err |-> r.err, objs |-> objs]
                        ELSE AssignFields(objs, id, r.this))

\* v.clone()
CloneVector(id) ==
    /\ nops < MaxCalls
    /\ FreeObjIds(objs) # {}
    /\ LET r == VectorClone(objs, id)
       IN  /\ objs' = r.objs
           /\ ret' = ObjRet(r.ref)
    /\ err' = "none"
    /\ op' = [name |-> "Vector.clone", this |-> id]
    /\ nops' = nops + 1
    /\ UNCHANGED <<calls, heap, frozen, mat4, mat3, vec, plane>>

\* v.equals(other)
EqualsVector(id, other) ==
    /\ nops < MaxCalls
    /\ objs[other].class = objs[id].class
    /\ ret' = BoolRet(VectorEquals(DimOf(objs[id].class), objs[id].f, objs[other].f))
    /\ err' = "none"
    /\ op' = [name |-> "Vector.equals", this |-> id, other |-> other]
    /\ nops' = nops + 1
    /\ UNCHANGED <<calls, heap, frozen, mat4, mat3, vec, plane, objs>>

\* Vector3.cross(vector1, vector2) (static): the arguments of new Vector3(...)
Vector3CrossStatic(vector1, vector2) ==
    Vector3(Sub(Mul(vector1.y, vector2.z), Mul(vector1.z, vector2.y)),
            Sub(Mul(vector1.z, vector2.x), Mul(vector1.x, vector2.z)),
            Sub(Mul(vector1.x, vector2.y), Mul(vector1.y, vector2.x)))

\* this.cross(other): x, y, z are read from this first; then this.x, this.y,
\* this.z are assigned one after the other, each from the fields other has at
\* that moment
Vector3Cross(o, this, other) ==
    LET x == o[this].f.x
        y == o[this].f.y
        z == o[this].f.z
        o1 == [o EXCEPT ![this].f.x = Sub(Mul(y, o[other].f.z), Mul(z, o[other].f.y))]
        o2 == [o1 EXCEPT ![this].f.y = Sub(Mul(z, o1[other].f.x), Mul(x, o1[other].f.z))]
        o3 == [o2 EXCEPT ![this].f.z = Sub(Mul(x, o2[other].f.y), Mul(y, o2[other].f.x))]
    IN  IF o[this].frozen
        THEN [err |-> "TypeError", objs |-> o]
        ELSE [err |-> "none", objs |-> o3]

\* v.cross(other) on a Vector3
CrossVector(id, other) ==
    /\ nops < MaxCalls
    /\ objs[id].class = "Vector3" /\ objs[other].class = "Vector3"
    /\ LET r == Vector3Cross(objs, id, other)
       IN  /\ objs' = r.objs
           /\ err' = r.err
           /\ ret' = IF r.err = "none" THEN ThisRet ELSE NoRet
    /\ op' = [name |-> "Vector.cross", this |-> id, other |-> other]
    /\ nops' = nops + 1
    /\ UNCHANGED <<calls, heap, frozen, mat4, mat3, vec, plane>>

\* a Matrix4x4 and a Matrix3x2 were constructed
MatricesConstructed == mat4.elements \in Allocated(heap) /\ mat3.elements \in Allocated(heap)

\* either the two matrices were constructed, and each of them possibly frozen,
\* or one vector was: a static instance of its class or a vector of the caller
InitObjects ==
    /\ calls = NoCalls
    /\ vec = Vector3(Zero, Zero, Zero)
    /\ plane = [normal |-> Vector3(Zero, Zero, Zero), d |-> Zero]
    /\ op = NoOp
    /\ ret = NoRet
    /\ err = "none"
    /\ nops = 0
    /\ \/ /\ heap = [a \in ArrayIds |->
                       IF a = 1 THEN Matrix4x4Identity
                       ELSE IF a = 2 THEN Matrix3x2Identity ELSE <<>>]
          /\ \E f4 \in BOOLEAN, f3 \in BOOLEAN :
                /\ mat4 = [elements |-> 1, frozen |-> f4]
                /\ mat3 = [elements |-> 2, frozen |-> f3]
                /\ frozen = (IF f4 THEN {1} ELSE {}) \cup (IF f3 THEN {2} ELSE {})
          /\ objs = NoObjects
       \/ /\ heap = [a \in ArrayIds |-> <<>>]
          /\ frozen = {}
          /\ mat4 = [elements |-> 0, frozen |-> FALSE]
          /\ mat3 = [elements |-> 0, frozen |-> FALSE]
          /\ \E dim \in 2..4 :
                \/ \E name \in StaticNames(dim) :
                      objs = [NoObjects EXCEPT ![1] = StaticInstance(dim, name)]
                \/ \E v \in CallerVectors(dim) :
                      objs = [NoObjects EXCEPT ![1] = VectorObject(ClassName(dim), v, FALSE, "")]

NextObjects ==
    \/ MatricesConstructed /\ \E k \in WriterKinds : \E f \in FieldsOf(k) :
                                 \E value \in WriteVals : ViewSet(k, f, value)
    \/ MatricesConstructed /\ \E translation \in Translations : SetTranslation(translation)
    \/ MatricesConstructed /\ Matrix4x4Freeze
    \/ MatricesConstructed /\ Matrix3x2Freeze
    \/ \E id \in VectorIds(objs) : FreezeVector(id)
    \/ \E id \in VectorIds(objs) : \E a \in ObjVals, b \in ObjVals : SetVector(id, a, b)
    \/ \E id \in VectorIds(objs) : \E a \in ObjVals : WriteVectorX(id, a)
    \/ \E id \in VectorIds(objs) : \E value \in VectorIds(objs) : CopyVector(id, value)
    \/ \E id \in VectorIds(objs) : \E other \in VectorIds(objs) : AddVector(id, other)
    \/ \E id \in VectorIds(objs) : NormalizeVector(id)
    \/ \E id \in VectorIds(objs) : CloneVector(id)
    \/ \E id \in VectorIds(objs) : \E other \in VectorIds(objs) : EqualsVector(id, other)
    \/ \E id \in VectorIds(objs) : \E other \in VectorIds(objs) : CrossVector(id, other)

SpecObjects == InitObjects /\ [][NextObjects]_vars

----------------------------------------------------------------------------
(* Claims C11, C13, C14, checked under SpecObjects *)

\* the operations that assign to the fields of their receiver
VectorMutators ==
    {"Vector.set", "Vector.x=", "Vector.copy", "Vector.add", "Vector.normalize"}

IsVector(o, id) == o[id].class \in VectorClasses

\* C11: once freeze() was called on a Vector2, Vector3, Vector4, Matrix3x2 or
\* Matrix4x4, every step leaves its components, its backing sequence and its
\* frozen status as they were, and every attempt to change them (a direct
\* field write, set, copy, add, normalize, setTranslation, a write through a
\* writer view of the elements) ends with an error; freeze() leaves the
\* instance frozen.
C11_FrozenIsImmutable ==
    [][/\ \A id \in ObjIds : (IsVector(objs, id) /\ objs[id].frozen) => objs'[id] = objs[id]
       /\ \A a \in frozen : a \in frozen' /\ heap'[a] = heap[a]
       /\ mat4.frozen => (mat4' = mat4 /\ mat4.elements \in frozen)
       /\ mat3.frozen => (mat3' = mat3 /\ mat3.elements \in frozen)
       /\ (op'.name \in VectorMutators /\ objs[op'.this].frozen) => err' # "none"
       /\ (op'.name = "set" /\ MatrixOf(op'.kind).elements \in frozen) => err' = "TypeError"
       /\ (op'.name = "setTranslation" /\ mat4.frozen) => err' = "TypeError"
       /\ op'.name = "Vector.freeze" => objs'[op'.this].frozen
       /\ op'.name = "Matrix4x4.freeze" => (mat4'.frozen /\ mat4.elements \in frozen')
       /\ op'.name = "Matrix3x2.freeze" => (mat3'.frozen /\ mat3.elements \in frozen')
      ]_vars

\* a vector of the caller was frozen by a call of freeze(), and the set()
\* called on it next threw
C11_Witness ==
    /\ op.name = "Vector.set" /\ err = "TypeError"
    /\ nops = 2
    /\ objs[op.this].frozen /\ objs[op.this].static = ""
    /\ objs[op.this].f \in CallerVectors(DimOf(objs[op.this].class))

HasNaN(dim, v) ==
    \/ IsNaN(v.x) \/ IsNaN(v.y)
    \/ (dim >= 3 /\ IsNaN(v.z))
    \/ (dim = 4 /\ IsNaN(v.w))

\* C14 (amended): for every Vector2, Vector3 and Vector4 v, v.clone() is a new
\* instance, distinct from v, of the same class and with the same components,
\* and v.clone().equals(v) is true exactly when no component of v is NaN;
\* a step that mutates one object leaves every other object unchanged, so
\* mutating the clone does not change v and mutating v does not change the clone.
C14_CloneIsDistinct ==
    [][/\ op'.name = "Vector.clone" =>
             LET v == op'.this
                 c == ret'.val
                 dim == DimOf(objs[v].class)
             IN  /\ c # v
                 /\ objs[c] = NoObj
                 /\ objs'[c].class = objs[v].class
                 /\ objs'[c].f = objs[v].f
                 /\ VectorEquals(dim, objs'[c].f, objs'[v].f) <=> ~HasNaN(dim, objs[v].f)
                 /\ \A id \in ObjIds \ {c} : objs'[id] = objs[id]
       /\ op'.name \in VectorMutators \cup {"Vector.freeze"} =>
             \A id \in ObjIds \ {op'.this} : objs'[id] = objs[id]
       /\ op'.name = "Vector.equals" => objs' = objs
      ]_vars

\* C14 as stated: after every clone() the result is distinct from v and
\* equals(v) is true.
C14_CloneEqualsAlways ==
    op.name = "Vector.clone" =>
        /\ ret.val # op.this
        /\ VectorEquals(DimOf(objs[op.this].class), objs[ret.val].f, objs[op.this].f)

\* the clone (object 2) of the caller's vector was changed by set() and the
\* vector it was cloned from still holds its components
C14_Witness ==
    /\ op.name = "Vector.set" /\ err = "none" /\ op.this = 2
    /\ nops = 2
    /\ objs[1].static = "" /\ objs[1].class = "Vector3"
    /\ objs[1].f = Spread(3, 1, I(2), One)
    /\ objs[2].f # objs[1].f

----------------------------------------------------------------------------
(* Transforms by a Quaternion and by a Matrix4x4 *)

\* Quaternion.constructor(x = 0, y = 0, z = 0, w = 1)
Quaternion(x, y, z, w) == [x |-> x, y |-> y, z |-> z, w |-> w]

\* new Quaternion(): every parameter takes its default
QuaternionDefault == Quaternion(Zero, Zero, Zero, One)

\* the products every quaternion transform starts with
RotationTerms(rotation) ==
    LET x2 == Add(rotation.x, rotation.x)
        y2 == Add(rotation.y, rotation.y)
        z2 == Add(rotation.z, rotation.z)
    IN  [wx2 |-> Mul(rotation.w, x2), wy2 |-> Mul(rotation.w, y2), wz2 |-> Mul(rotation.w, z2),
         xx2 |-> Mul(rotation.x, x2), xy2 |-> Mul(rotation.x, y2), xz2 |-> Mul(rotation.x, z2),
         yy2 |-> Mul(rotation.y, y2), yz2 |-> Mul(rotation.y, z2), zz2 |-> Mul(rotation.z, z2)]

\* a + b + c, left to right
Add3(a, b, c) == Add(Add(a, b), c)

\* 1.0 - a - b
OneMinus(a, b) == Sub(Sub(One, a), b)

\* Vector2.transformFromQuaternion(rotation)
Vector2TransformFromQuaternion(this, rotation) ==
    LET t == RotationTerms(rotation)
        x == this.x
        y == this.y
    IN  Vector2(Add(Mul(x, OneMinus(t.yy2, t.zz2)), Mul(y, Sub(t.xy2, t.wz2))),
                Add(Mul(x, Add(t.xy2, t.wz2)), Mul(y, OneMinus(t.xx2, t.zz2))))

\* Vector3.transformFromQuaternion(rotation)
Vector3TransformFromQuaternion(this, rotation) ==
    LET t == RotationTerms(rotation)
        x == this.x
        y == this.y
        z == this.z
    IN  Vector3(Add3(Mul(x, OneMinus(t.yy2, t.zz2)), Mul(y, Sub(t.xy2, t.wz2)),
                     Mul(z, Add(t.xz2, t.wy2))),
                Add3(Mul(x, Add(t.xy2, t.wz2)), Mul(y, OneMinus(t.xx2, t.zz2)),
                     Mul(z, Sub(t.yz2, t.wx2))),
                Add3(Mul(x, Sub(t.xz2, t.wy2)), Mul(y, Add(t.yz2, t.wx2)),
                     Mul(z, OneMinus(t.xx2, t.yy2))))

\* Vector4.transformFromQuaternion(rotation): w is not assigned
Vector4TransformFromQuaternion(this, rotation) ==
    LET t == RotationTerms(rotation)
        px == this.x
        py == this.y
        pz == this.z
    IN  Vector4(Add3(Mul(px, OneMinus(t.yy2, t.zz2)), Mul(py, Sub(t.xy2, t.wz2)),
                     Mul(pz, Add(t.xz2, t.wy2))),
                Add3(Mul(px, Add(t.xy2, t.wz2)), Mul(py, OneMinus(t.xx2, t.zz2)),
                     Mul(pz, Sub(t.yz2, t.wx2))),
                Add3(Mul(px, Sub(t.xz2, t.wy2)), Mul(py, Add(t.yz2, t.wx2)),
                     Mul(pz, OneMinus(t.xx2, t.yy2))),
                this.w)

\* mutant: w of the target is left as it was
Vector4TransformVector2FromQuaternionKeepW(this, value, rotation) ==
    LET r == Vector3TransformFromQuaternion(Vector3(value.x, value.y, Zero), rotation)
    IN  Vector4(r.x, r.y, r.z, this.w)

\* Vector4.transformVector2FromQuaternion(value, rotation), instance form
Vector4TransformVector2FromQuaternion(this, value, rotation) ==
    LET t == RotationTerms(rotation)
    IN  Vector4(Add(Mul(value.x, OneMinus(t.yy2, t.zz2)), Mul(value.y, Sub(t.xy2, t.wz2))),
                Add(Mul(value.x, Add(t.xy2, t.wz2)), Mul(value.y, OneMinus(t.xx2, t.zz2))),
                Add(Mul(value.x, Sub(t.xz2, t.wy2)), Mul(value.y, Add(t.yz2, t.wx2))),
                One)

\* Vector4.transformVector3FromQuaternion(value, rotation), instance form
Vector4TransformVector3FromQuaternion(this, value, rotation) ==
    LET t == RotationTerms(rotation)
    IN  Vector4(Add3(Mul(value.x, OneMinus(t.yy2, t.zz2)), Mul(value.y, Sub(t.xy2, t.wz2)),
                     Mul(value.z, Add(t.xz2, t.wy2))),
                Add3(Mul(value.x, Add(t.xy2, t.wz2)), Mul(value.y, OneMinus(t.xx2, t.zz2)),
                     Mul(value.z, Sub(t.yz2, t.wx2))),
                Add3(Mul(value.x, Sub(t.xz2, t.wy2)), Mul(value.y, Add(t.yz2, t.wx2)),
                     Mul(value.z, OneMinus(t.xx2, t.yy2))),
                One)

\* Vector4.transformVector2FromQuaternion(value, rotation), static form
Vector4TransformVector2FromQuaternionStatic(value, rotation) ==
    LET t == RotationTerms(rotation)
    IN  Vector4(Add(Mul(value.x, OneMinus(t.yy2, t.zz2)), Mul(value.y, Sub(t.xy2, t.wz2))),
                Add(Mul(value.x, Add(t.xy2, t.wz2)), Mul(value.y, OneMinus(t.xx2, t.zz2))),
                Add(Mul(value.x, Sub(t.xz2, t.wy2)), Mul(value.y, Add(t.yz2, t.wx2))),
                One)

\* Vector4.transformVector3FromQuaternion(value, rotation), static form
Vector4TransformVector3FromQuaternionStatic(value, rotation) ==
    LET t == RotationTerms(rotation)
    IN  Vector4(Add3(Mul(value.x, OneMinus(t.yy2, t.zz2)), Mul(value.y, Sub(t.xy2, t.wz2)),
                     Mul(value.z, Add(t.xz2, t.wy2))),
                Add3(Mul(value.x, Add(t.xy2, t.wz2)), Mul(value.y, OneMinus(t.xx2, t.zz2)),
                     Mul(value.z, Sub(t.yz2, t.wx2))),
                Add3(Mul(value.x, Sub(t.xz2, t.wy2)), Mul(value.y, Add(t.yz2, t.wx2)),
                     Mul(value.z, OneMinus(t.xx2, t.yy2))),
                One)

\* Vector4.transformFromQuaternion(value, rotation), static form
Vector4TransformFromQuaternionStatic(value, rotation) ==
    LET t == RotationTerms(rotation)
    IN  Vector4(Add3(Mul(value.x, OneMinus(t.yy2, t.zz2)), Mul(value.y, Sub(t.xy2, t.wz2)),
                     Mul(value.z, Add(t.xz2, t.wy2))),
                Add3(Mul(value.x, Add(t.xy2, t.wz2)), Mul(value.y, OneMinus(t.xx2, t.zz2)),
                     Mul(value.z, Sub(t.yz2, t.wx2))),
                Add3(Mul(value.x, Sub(t.xz2, t.wy2)), Mul(value.y, Add(t.yz2, t.wx2)),
                     Mul(value.z, OneMinus(t.xx2, t.yy2))),
                value.w)

\* m.$mij() of the reader view of the tuple elements
ReadM(elements, i, j) == elements[Matrix4x4ReaderIndex(<<i, j>>) + 1]

\* a + b + c + d, left to right
Add4(a, b, c, d) == Add(Add(Add(a, b), c), d)

\* Vector2.transformFrom4x4Matrix(matrix)
Vector2TransformFrom4x4Matrix(this, elements) ==
    LET x == this.x
        y == this.y
    IN  Vector2(Add3(Mul(x, ReadM(elements, 1, 1)), Mul(y, ReadM(elements, 2, 1)),
                     ReadM(elements, 4, 1)),
                Add3(Mul(x, ReadM(elements, 1, 2)), Mul(y, ReadM(elements, 2, 2)),
                     ReadM(elements, 4, 2)))

\* Vector2.transformNormalFrom4x4Matrix(matrix)
Vector2TransformNormalFrom4x4Matrix(this, elements) ==
    LET x == this.x
        y == this.y
    IN  Vector2(Add(Mul(x, ReadM(elements, 1, 1)), Mul(y, ReadM(elements, 2, 1))),
                Add(Mul(x, ReadM(elements, 1, 2)), Mul(y, ReadM(elements, 2, 2))))

\* mutant: m44 is added to each component in place of m41, m42, m43
Vector3TransformFrom4x4MatrixColumn(this, elements) ==
    LET x == this.x
        y == this.y
        z == this.z
    IN  Vector3(Add4(Mul(x, ReadM(elements, 1, 1)), Mul(y, ReadM(elements, 2, 1)),
                     Mul(z, ReadM(elements, 3, 1)), ReadM(elements, 4, 4)),
                Add4(Mul(x, ReadM(elements, 1, 2)), Mul(y, ReadM(elements, 2, 2)),
                     Mul(z, ReadM(elements, 3, 2)), ReadM(elements, 4, 4)),
                Add4(Mul(x, ReadM(elements, 1, 3)), Mul(y, ReadM(elements, 2, 3)),
                     Mul(z, ReadM(elements, 3, 3)), ReadM(elements, 4, 4)))

\* Vector3.transformFrom4x4Matrix(matrix)
Vector3TransformFrom4x4Matrix(this, elements) ==
    LET x == this.x
        y == this.y
        z == this.z
    IN  Vector3(Add4(Mul(x, ReadM(elements, 1, 1)), Mul(y, ReadM(elements, 2, 1)),
                     Mul(z, ReadM(elements, 3, 1)), ReadM(elements, 4, 1)),
                Add4(Mul(x, ReadM(elements, 1, 2)), Mul(y, ReadM(elements, 2, 2)),
                     Mul(z, ReadM(elements, 3, 2)), ReadM(elements, 4, 2)),
                Add4(Mul(x, ReadM(elements, 1, 3)), Mul(y, ReadM(elements, 2, 3)),
                     Mul(z, ReadM(elements, 3, 3)), ReadM(elements, 4, 3)))

\* Vector3.transformNormalFrom4x4Matrix(matrix)
Vector3TransformNormalFrom4x4Matrix(this, elements) ==
    LET x == this.x
        y == this.y
        z == this.z
    IN  Vector3(Add3(Mul(x, ReadM(elements, 1, 1)), Mul(y, ReadM(elements, 2, 1)),
                     Mul(z, ReadM(elements, 3, 1))),
                Add3(Mul(x, ReadM(elements, 1, 2)), Mul(y, ReadM(elements, 2, 2)),
                     Mul(z, ReadM(elements, 3, 2))),
                Add3(Mul(x, ReadM(elements, 1, 3)), Mul(y, ReadM(elements, 2, 3)),
                     Mul(z, ReadM(elements, 3, 3))))

\* Vector4.transformFromMatrix4x4(matrix)
Vector4TransformFromMatrix4x4(this, elements) ==
    LET x == this.x
        y == this.y
        z == this.z
        w == this.w
    IN  Vector4(Add4(Mul(x, ReadM(elements, 1, 1)), Mul(y, ReadM(elements, 2, 1)),
                     Mul(z, ReadM(elements, 3, 1)), Mul(w, ReadM(elements, 4, 1))),
                Add4(Mul(x, ReadM(elements, 1, 2)), Mul(y, ReadM(elements, 2, 2)),
                     Mul(z, ReadM(elements, 3, 2)), Mul(w, ReadM(elements, 4, 2))),
                Add4(Mul(x, ReadM(elements, 1, 3)), Mul(y, ReadM(elements, 2, 3)),
                     Mul(z, ReadM(elements, 3, 3)), Mul(w, ReadM(elements, 4, 3))),
                Add4(Mul(x, ReadM(elements, 1, 4)), Mul(y, ReadM(elements, 2, 4)),
                     Mul(z, ReadM(elements, 3, 4)), Mul(w, ReadM(elements, 4, 4))))

----------------------------------------------------------------------------
(* Matrix4x4.clone, copy and invert, as Plane.transformFromMatrix4x4 uses them *)

\* the tuple whose element read by $mij is rows[i][j]
Matrix4x4FromRows(rows) ==
    [k \in 1..16 |->
        LET f == CHOOSE g \in Fields4 : Matrix4x4WriterIndex(g) = k - 1
        IN  rows[f[1]][f[2]]]

\* the three indices of 1..4 other than k, in order
Others(k) ==
    CASE k = 1 -> <<2, 3, 4>> [] k = 2 -> <<1, 3, 4>>
      [] k = 3 -> <<1, 2, 4>> [] k = 4 -> <<1, 2, 3>>

\* the determinant of the elements left when row i and column j are removed
Minor(elements, i, j) ==
    LET r == Others(i)
        c == Others(j)
        a(p, q) == ReadM(elements, r[p], c[q])
    IN  Add(Sub(Mul(a(1, 1), Sub(Mul(a(2, 2), a(3, 3)), Mul(a(2, 3), a(3, 2)))),
                Mul(a(1, 2), Sub(Mul(a(2, 1), a(3, 3)), Mul(a(2, 3), a(3, 1))))),
            Mul(a(1, 3), Sub(Mul(a(2, 1), a(3, 2)), Mul(a(2, 2), a(3, 1)))))

Cofactor(elements, i, j) ==
    IF (i + j) % 2 = 0 THEN Minor(elements, i, j) ELSE Neg(Minor(elements, i, j))

Determinant(elements) ==
    Add4(Mul(ReadM(elements, 1, 1), Cofactor(elements, 1, 1)),
         Mul(ReadM(elements, 1, 2), Cofactor(elements, 1, 2)),
         Mul(ReadM(elements, 1, 3), Cofactor(elements, 1, 3)),
         Mul(ReadM(elements, 1, 4), Cofactor(elements, 1, 4)))

SingularError == "Cannot invert a singular matrix."

\* invert(): the elements are replaced by those of the inverse; fails, leaving
\* the elements, when the matrix is singular
Matrix4x4Invert(elements) ==
    LET det == Determinant(elements)
    IN  IF StrictEq(det, Zero)
        THEN [err |-> SingularError, elements |-> elements]
        ELSE [err |-> "none",
              elements |-> Matrix4x4FromRows(
                  [i \in 1..4 |-> [j \in 1..4 |-> Div(Cofactor(elements, j, i), det)]])]

\* mutant: the scratch matrix, once allocated, is not written by later calls
ScratchAssignKeep(h, scratch, elements) ==
    IF scratch.elements = 0
    THEN [heap |-> [h EXCEPT ![NewId(h)] = elements],
          mat4 |-> [elements |-> NewId(h), frozen |-> FALSE]]
    ELSE [heap |-> h, mat4 |-> scratch]

\* inverted = Plane._tempMatrix4x4 = matrix.clone() when the scratch matrix is
\* null, else inverted = Plane._tempMatrix4x4.copy(matrix); mat4 is the
\* scratch matrix (elements 0 while it is null)
ScratchAssign(h, scratch, elements) ==
    IF scratch.elements = 0
    THEN [heap |-> [h EXCEPT ![NewId(h)] = elements],
          mat4 |-> [elements |-> NewId(h), frozen |-> FALSE]]
    ELSE [heap |-> [h EXCEPT ![scratch.elements] = elements], mat4 |-> scratch]

----------------------------------------------------------------------------
(* Plane instances: the normal is a Vector3 instance the plane refers to *)

\* a Plane instance: f.normal is the identifier of its normal
PlaneObject(normal, d, isFrozen) ==
    [class |-> "Plane", f |-> [normal |-> normal, d |-> d], frozen |-> isFrozen, static |-> ""]

PlaneIds(o) == {id \in ObjIds : o[id].class = "Plane"}

\* the fields of the plane p of o as a value
PlaneValue(o, p) == [normal |-> o[o[p].f.normal].f, d |-> o[p].f.d]

\* mutant: the constructor stores the vector it was given
PlaneConstructorShared(o, normal, d) ==
    [objs |-> [o EXCEPT ![NewObjId(o)] = PlaneObject(normal, d, FALSE)], ref |-> NewObjId(o)]

\* Plane.constructor(normal, d): this.normal = normal.clone(); this.d = d
PlaneConstructor(o, normal, d) ==
    LET c == VectorClone(o, normal)
        this == NewObjId(c.objs)
    IN  [objs |-> [c.objs EXCEPT ![this] = PlaneObject(c.ref, d, FALSE)], ref |-> this]

\* normal.x = ...; normal.y = ...; normal.z = ...; this.d = ...: the
\* assignments to the normal come first, each throws if the normal is frozen,
\* then the assignment to d throws if the plane is frozen
PlaneWrite(o, p, normal, d) ==
    LET r == AssignFields(o, o[p].f.normal, normal)
    IN  IF r.err # "none" THEN r
        ELSE AssignFields(r.objs, p, [r.objs[p].f EXCEPT !.d = d])

\* mutant: d is assigned too, as in the other methods of Plane
PlaneWriteNormalAndD(o, p, normal) == PlaneWrite(o, p, normal, Zero)

\* normal.x = ...; normal.y = ...; normal.z = ...: d is not assigned
PlaneWriteNormal(o, p, normal) == AssignFields(o, o[p].f.normal, normal)

\* an argument that is a Vector3: a vector of the caller held by reference
\* ([ref |-> id]) or a vector constructed for the call ([val |-> v])
PointValue(o, point) == IF "ref" \in DOMAIN point THEN o[point.ref].f ELSE point.val

\* Plane.makeFromVertices(point1, point2, point3): ls, the squared length of
\* the cross product N of a = point2 - point1 and b = point3 - point1
PlaneVerticesLs(point1, point2, point3) ==
    LET ax == Sub(point2.x, point1.x)
        ay == Sub(point2.y, point1.y)
        az == Sub(point2.z, point1.z)
        bx == Sub(point3.x, point1.x)
        by == Sub(point3.y, point1.y)
        bz == Sub(point3.z, point1.z)
        nx == Sub(Mul(ay, bz), Mul(az, by))
        ny == Sub(Mul(az, bx), Mul(ax, bz))
        nz == Sub(Mul(ax, by), Mul(ay, bx))
    IN  Add3(Mul(nx, nx), Mul(ny, ny), Mul(nz, nz))

\* Plane.makeFromVertices(point1, point2, point3): the values assigned to
\* normal.x, normal.y, normal.z
PlaneVerticesNormal(point1, point2, point3) ==
    LET ax == Sub(point2.x, point1.x)
        ay == Sub(point2.y, point1.y)
        az == Sub(point2.z, point1.z)
        bx == Sub(point3.x, point1.x)
        by == Sub(point3.y, point1.y)
        bz == Sub(point3.z, point1.z)
        nx == Sub(Mul(ay, bz), Mul(az, by))
        ny == Sub(Mul(az, bx), Mul(ax, bz))
        nz == Sub(Mul(ax, by), Mul(ay, bx))
        ls == Add3(Mul(nx, nx), Mul(ny, ny), Mul(nz, nz))
        invNorm == Div(One, Sqrt(ls))
    IN  Vector3(Mul(nx, invNorm), Mul(ny, invNorm), Mul(nz, invNorm))

\* Plane.makeFromVertices(point1, point2, point3) on the plane p: the points
\* are read, the normal is assigned, then d is assigned from the fields the
\* normal and point1 have after that assignment
PlaneMakeFromVertices(o, p, points) ==
    LET normal == PlaneVerticesNormal(PointValue(o, points[1]), PointValue(o, points[2]),
                                      PointValue(o, points[3]))
        r == AssignFields(o, o[p].f.normal, normal)
        n == r.objs[o[p].f.normal].f
        point1 == PointValue(r.objs, points[1])
    IN  IF r.err # "none" THEN r
        ELSE AssignFields(r.objs, p,
                 [r.objs[p].f EXCEPT
                     !.d = Neg(Add3(Mul(n.x, point1.x), Mul(n.y, point1.y),
                                    Mul(n.z, point1.z)))])

\* mutant: the rows of the inverse are read as the vector transforms read a matrix
PlaneTransformFromMatrix4x4Forward(this, m) ==
    LET r == Vector4TransformFromMatrix4x4(
                 Vector4(this.normal.x, this.normal.y, this.normal.z, this.d), m)
    IN  [normal |-> Vector3(r.x, r.y, r.z), d |-> r.w]

\* Plane.transformFromMatrix4x4(matrix): the values assigned, m being the
\* elements of the inverted scratch matrix
PlaneTransformFromMatrix4x4(this, m) ==
    LET x == this.normal.x
        y == this.normal.y
        z == this.normal.z
        w == this.d
    IN  [normal |->
            Vector3(Add4(Mul(x, ReadM(m, 1, 1)), Mul(y, ReadM(m, 1, 2)),
                         Mul(z, ReadM(m, 1, 3)), Mul(w, ReadM(m, 1, 4))),
                    Add4(Mul(x, ReadM(m, 2, 1)), Mul(y, ReadM(m, 2, 2)),
                         Mul(z, ReadM(m, 2, 3)), Mul(w, ReadM(m, 2, 4))),
                    Add4(Mul(x, ReadM(m, 3, 1)), Mul(y, ReadM(m, 3, 2)),
                         Mul(z, ReadM(m, 3, 3)), Mul(w, ReadM(m, 3, 4)))),
         d |-> Add4(Mul(x, ReadM(m, 4, 1)), Mul(y, ReadM(m, 4, 2)),
                    Mul(z, ReadM(m, 4, 3)), Mul(w, ReadM(m, 4, 4)))]

\* Plane.transformFromQuaternion(rotation): the values assigned to the normal
PlaneTransformFromQuaternion(normal, rotation) ==
    LET t == RotationTerms(rotation)
        m11 == OneMinus(t.yy2, t.zz2)
        m21 == Sub(t.xy2, t.wz2)
        m31 == Add(t.xz2, t.wy2)
        m12 == Add(t.xy2, t.wz2)
        m22 == OneMinus(t.xx2, t.zz2)
        m32 == Sub(t.yz2, t.wx2)
        m13 == Sub(t.xz2, t.wy2)
        m23 == Add(t.yz2, t.wx2)
        m33 == OneMinus(t.xx2, t.yy2)
        x == normal.x
        y == normal.y
        z == normal.z
    IN  Vector3(Add3(Mul(x, m11), Mul(y, m12), Mul(z, m13)),
                Add3(Mul(x, m21), Mul(y, m22), Mul(z, m23)),
                Add3(Mul(x, m31), Mul(y, m32), Mul(z, m33)))

\* the normals, distances and rotations of the caller
PlaneObjectNormals ==
    {Vector3(I(2), Zero, Zero), Vector3(Zero, One, Zero), Vector3(Num(3, 5), Zero, Num(4, 5))}

PlaneObjectDistances == {Zero, One}

\* the identity, the rotation by a third of a turn about (1,1,1), a
\* quaternion about z that is not of unit length
Quaternions ==
    {QuaternionDefault,
     Quaternion(Num(1, 2), Num(1, 2), Num(1, 2), Num(1, 2)),
     Quaternion(Zero, Zero, One, One)}

\* a Vector3 constructed for the call
NewPoint(x, y, z) == [val |-> Vector3(x, y, z)]

\* the triples of points makeFromVertices is called with: three vectors
\* constructed for the call (the last triple is collinear), or a Vector3 the
\* caller holds, the normal of a plane included, as the first point
PlaneVertices(o) ==
    {<<NewPoint(Zero, Zero, Zero), NewPoint(One, Zero, Zero), NewPoint(Zero, One, Zero)>>,
     <<NewPoint(Zero, Zero, One), NewPoint(I(2), Zero, One), NewPoint(Zero, I(2), One)>>,
     <<NewPoint(Zero, Zero, Zero), NewPoint(One, Zero, Zero), NewPoint(I(2), Zero, Zero)>>}
        \cup {<<[ref |-> id], NewPoint(One, Zero, Zero), NewPoint(Zero, One, Zero)>> :
                 id \in {v \in ObjIds : o[v].class = "Vector3"}}

\* the matrices of the caller: the identity, a translation, a rotation with a
\* scale and a translation, a singular matrix
PlaneMatrices ==
    {Matrix4x4Identity,
     Matrix4x4FromRows(<< <<One, Zero, Zero, Zero>>, <<Zero, One, Zero, Zero>>,
                          <<Zero, Zero, One, Zero>>, <<One, I(2), I(3), One>> >>),
     Matrix4x4FromRows(<< <<Zero, I(2), Zero, Zero>>, <<I(-2), Zero, Zero, Zero>>,
                          <<Zero, Zero, One, Zero>>, <<One, Zero, I(-1), One>> >>),
     Matrix4x4FromRows(<< <<One, Zero, Zero, Zero>>, <<Zero, One, Zero, Zero>>,
                          <<Zero, Zero, Zero, Zero>>, <<Zero, Zero, Zero, One>> >>)}

\* invert() on the scratch matrix, for each matrix the caller can pass
InvertedMatrices == [elements \in PlaneMatrices |-> Matrix4x4Invert(elements)]

\* the end of a call of a method of the plane p
PlaneCallEnds(p, r) ==
    /\ nops < MaxCalls
    /\ objs' = r.objs
    /\ err' = r.err
    /\ ret' = IF r.err = "none" THEN ThisRet ELSE NoRet
    /\ nops' = nops + 1
    /\ UNCHANGED <<calls, frozen, mat3, vec, plane>>

\* p.freeze(): Object.freeze(this)
FreezePlane(p) ==
    /\ PlaneCallEnds(p, [err |-> "none", objs |-> ObjectFreeze(objs, p)])
    /\ op' = [name |-> "Plane.freeze", this |-> p]
    /\ UNCHANGED <<heap, mat4>>

\* p.makeFromVertices(point1, point2, point3)
MakeFromVertices(p, points) ==
    /\ HasRationalSqrt(PlaneVerticesLs(PointValue(objs, points[1]), PointValue(objs, points[2]),
                                       PointValue(objs, points[3])))
    /\ PlaneCallEnds(p, PlaneMakeFromVertices(objs, p, points))
    /\ op' = [name |-> "Plane.makeFromVertices", this |-> p, points |-> points]
    /\ UNCHANGED <<heap, mat4>>

\* p.normalize()
NormalizePlaneObject(p) ==
    LET this == PlaneValue(objs, p)
        r == PlaneNormalize(this)
    IN  /\ HasRationalSqrt(LengthSquared(3, this.normal))
        /\ PlaneCallEnds(p, IF r.err # "none" THEN [err |-> r.err, objs |-> objs]
                            ELSE IF LtFltEpsilon(Abs(Sub(LengthSquared(3, this.normal), One)))
                            THEN [err |-> "none", objs |-> objs]
                            ELSE PlaneWrite(objs, p, r.this.normal, r.this.d))
        /\ op' = [name |-> "Plane.normalize", this |-> p]
        /\ UNCHANGED <<heap, mat4>>

\* p.transformFromMatrix4x4(matrix), matrix.elements holding the values elements
TransformPlaneFromMatrix4x4(p, elements) ==
    LET s == ScratchAssign(heap, mat4, elements)
        inverted == InvertedMatrices[s.heap[s.mat4.elements]]
        v == PlaneTransformFromMatrix4x4(PlaneValue(objs, p), inverted.elements)
    IN  /\ PlaneCallEnds(p, IF inverted.err # "none" THEN [err |-> inverted.err, objs |-> objs]
                            ELSE PlaneWrite(objs, p, v.normal, v.d))
        /\ heap' = [s.heap EXCEPT ![s.mat4.elements] = inverted.elements]
        /\ mat4' = s.mat4
        /\ op' = [name |-> "Plane.transformFromMatrix4x4", this |-> p, matrix |-> elements]

\* p.transformFromQuaternion(rotation)
TransformPlaneFromQuaternion(p, rotation) ==
    /\ PlaneCallEnds(p, PlaneWriteNormal(objs, p,
                            PlaneTransformFromQuaternion(PlaneValue(objs, p).normal,
                                                         objs[rotation].f)))
    /\ op' = [name |-> "Plane.transformFromQuaternion", this |-> p, rotation |-> rotation]
    /\ UNCHANGED <<heap, mat4>>

QuaternionIds(o) == {id \in ObjIds : o[id].class = "Quaternion"}

\* the caller constructed a Vector3 (object 1) and a Quaternion (object 2),
\* then a Plane from the Vector3; the scratch matrix of Plane is null
InitPlaneObjects ==
    /\ calls = NoCalls
    /\ heap = [a \in ArrayIds |-> <<>>]
    /\ frozen = {}
    /\ mat4 = [elements |-> 0, frozen |-> FALSE]
    /\ mat3 = [elements |-> 0, frozen |-> FALSE]
    /\ vec = Vector3(Zero, Zero, Zero)
    /\ plane = [normal |-> Vector3(Zero, Zero, Zero), d |-> Zero]
    /\ ret = NoRet
    /\ err = "none"
    /\ nops = 0
    /\ \E normal \in PlaneObjectNormals, d \in PlaneObjectDistances, rotation \in Quaternions :
          LET o == [NoObjects EXCEPT ![1] = VectorObject("Vector3", normal, FALSE, ""),
                                     ![2] = VectorObject("Quaternion", rotation, FALSE, "")]
              r == PlaneConstructor(o, 1, d)
          IN  /\ objs = r.objs
              /\ op = [name |-> "Plane.constructor", this |-> r.ref, normal |-> 1]

NextPlaneObjects ==
    \/ \E p \in PlaneIds(objs) : FreezePlane(p)
    \/ \E p \in PlaneIds(objs) : \E points \in PlaneVertices(objs) : MakeFromVertices(p, points)
    \/ \E p \in PlaneIds(objs) : NormalizePlaneObject(p)
    \/ \E p \in PlaneIds(objs) : \E elements \in PlaneMatrices :
          TransformPlaneFromMatrix4x4(p, elements)
    \/ \E p \in PlaneIds(objs) : \E rotation \in QuaternionIds(objs) :
          TransformPlaneFromQuaternion(p, rotation)
    \/ \E id \in VectorIds(objs) : \E a \in ObjVals : WriteVectorX(id, a)

SpecPlaneObjects == InitPlaneObjects /\ [][NextPlaneObjects]_vars

----------------------------------------------------------------------------
(* Claims C12 and C15, checked under SpecPlaneObjects *)

\* the methods of Plane that assign to the normal or to d
PlaneMutators ==
    {"Plane.makeFromVertices", "Plane.normalize", "Plane.transformFromMatrix4x4",
     "Plane.transformFromQuaternion"}

\* C12: once freeze() was called on a plane, every step (normalize,
\* makeFromVertices, transformFromMatrix4x4, transformFromQuaternion, a write
\* to a component of plane.normal) leaves d and the x, y, z of its normal as
\* they were.
C12_FrozenPlaneIsImmutable ==
    [][\A p \in PlaneIds(objs) :
          objs[p].frozen => PlaneValue(objs', p) = PlaneValue(objs, p)]_vars

\* normalize() was called on a frozen plane and threw the TypeError of the
\* assignment to d, after the assignments to the normal
C12_Witness ==
    /\ op.name = "Plane.normalize" /\ err = "TypeError"
    /\ objs[op.this].frozen
    /\ ~objs[objs[op.this].f.normal].frozen

\* the vector the caller passed to the constructor: the first object constructed
CallerNormal == CHOOSE id \in ObjIds : \A other \in ObjIds : id <= other

\* C15: the plane constructed by new Plane(n, d) refers to a normal that is
\* not n and holds the values of n; from then on the plane refers to the same
\* normal, a write to n leaves the normal and d of the plane unchanged, and
\* normalize, makeFromVertices, transformFromMatrix4x4 and
\* transformFromQuaternion leave n unchanged.
C15_PlaneOwnsNormal ==
    /\ op.name = "Plane.constructor" =>
          /\ objs[op.this].f.normal # op.normal
          /\ objs[objs[op.this].f.normal].f = objs[op.normal].f
    /\ [][\A p \in PlaneIds(objs) :
             /\ objs'[p].f.normal = objs[p].f.normal
             /\ objs[p].f.normal # CallerNormal
             /\ (op'.name = "Vector.x=" /\ op'.this = CallerNormal) =>
                   PlaneValue(objs', p) = PlaneValue(objs, p)
             /\ op'.name \in PlaneMutators => objs'[CallerNormal] = objs[CallerNormal]
          ]_vars

\* the plane was transformed by a rotation, which changed its normal, and the
\* vector it was constructed from was then written by the caller: the two differ
C15_Witness ==
    /\ op.name = "Vector.x=" /\ op.this = CallerNormal /\ err = "none"
    /\ nops = 2
    /\ \E p \in PlaneIds(objs) :
          /\ objs[p].f.normal # CallerNormal
          /\ objs[objs[p].f.normal].f.x # objs[CallerNormal].f.x
          /\ objs[objs[p].f.normal].f \notin PlaneObjectNormals

----------------------------------------------------------------------------
(* Vector2 / Vector3 / Vector4: the transforms, called on values *)

\* the first dim components of a four-component vector
Truncate(dim, v) ==
    CASE dim = 2 -> Vector2(v.x, v.y)
      [] dim = 3 -> Vector3(v.x, v.y, v.z)
      [] dim = 4 -> v

\* the vectors the transforms are called on and with
TransformVectors(dim) ==
    {Truncate(dim, v) : v \in {Vector4(One, I(2), I(3), I(4)),
                               Vector4(I(-2), Num(1, 2), Zero, One),
                               Vector4(Zero, Zero, Zero, Zero),
                               Vector4(NaN, One, One, One),
                               Vector4(Infinity, One, Zero, Zero)}}

\* the number of components of the vector value v
Components(v) == IF "w" \in DOMAIN v THEN 4 ELSE IF "z" \in DOMAIN v THEN 3 ELSE 2

\* transformFrom4x4Matrix of Vector2 and Vector3, transformFromMatrix4x4 of Vector4
TransformFrom4x4MatrixOf(dim, this, elements) ==
    CASE dim = 2 -> Vector2TransformFrom4x4Matrix(this, elements)
      [] dim = 3 -> Vector3TransformFrom4x4Matrix(this, elements)
      [] dim = 4 -> Vector4TransformFromMatrix4x4(this, elements)

\* transformNormalFrom4x4Matrix of Vector2 and Vector3
TransformNormalFrom4x4MatrixOf(dim, this, elements) ==
    CASE dim = 2 -> Vector2TransformNormalFrom4x4Matrix(this, elements)
      [] dim = 3 -> Vector3TransformNormalFrom4x4Matrix(this, elements)

\* transformFromQuaternion of Vector2, Vector3 and Vector4
TransformFromQuaternionOf(dim, this, rotation) ==
    CASE dim = 2 -> Vector2TransformFromQuaternion(this, rotation)
      [] dim = 3 -> Vector3TransformFromQuaternion(this, rotation)
      [] dim = 4 -> Vector4TransformFromQuaternion(this, rotation)

\* the end of a call of a transform: an instance form assigns result to this
\* and returns this, a static form returns result as a new vector
TransformEnds(name, result, static) ==
    /\ vec' = IF static THEN vec ELSE result
    /\ ret' = IF static THEN VecRet(result) ELSE ThisRet
    /\ err' = "none"
    /\ op' = [name |-> name, class |-> op.class, static |-> static, this |-> vec,
              value |-> op.args[1], rotation |-> op.args[2], matrix |-> op.args[3]]
    /\ UNCHANGED <<calls, objs, heap, frozen, mat4, mat3, plane, nops>>

\* vec.transformFrom4x4Matrix(matrix), vec.transformFromMatrix4x4(matrix)
TransformFrom4x4Matrix ==
    /\ Constructed(3)
    /\ TransformEnds("transformFrom4x4Matrix",
                     TransformFrom4x4MatrixOf(DimOf(op.class), vec, op.args[3]), FALSE)

\* vec.transformNormalFrom4x4Matrix(matrix)
TransformNormalFrom4x4Matrix ==
    /\ Constructed(3)
    /\ op.class \in {"Vector2", "Vector3"}
    /\ TransformEnds("transformNormalFrom4x4Matrix",
                     TransformNormalFrom4x4MatrixOf(DimOf(op.class), vec, op.args[3]), FALSE)

\* vec.transformFromQuaternion(rotation)
TransformFromQuaternion ==
    /\ Constructed(3)
    /\ TransformEnds("transformFromQuaternion",
                     TransformFromQuaternionOf(DimOf(op.class), vec, op.args[2]), FALSE)

\* Vector4.transformFromQuaternion(vec, rotation)
TransformFromQuaternionStatic ==
    /\ Constructed(3)
    /\ op.class = "Vector4"
    /\ TransformEnds("transformFromQuaternion",
                     Vector4TransformFromQuaternionStatic(vec, op.args[2]), TRUE)

\* vec.transformVector2FromQuaternion(value, rotation)
TransformVector2FromQuaternion ==
    /\ Constructed(3)
    /\ op.class = "Vector4" /\ Components(op.args[1]) = 2
    /\ TransformEnds("transformVector2FromQuaternion",
                     Vector4TransformVector2FromQuaternion(vec, op.args[1], op.args[2]), FALSE)

\* vec.transformVector3FromQuaternion(value, rotation)
TransformVector3FromQuaternion ==
    /\ Constructed(3)
    /\ op.class = "Vector4" /\ Components(op.args[1]) = 3
    /\ TransformEnds("transformVector3FromQuaternion",
                     Vector4TransformVector3FromQuaternion(vec, op.args[1], op.args[2]), FALSE)

\* Vector4.transformVector2FromQuaternion(value, rotation)
TransformVector2FromQuaternionStatic ==
    /\ Constructed(3)
    /\ op.class = "Vector4" /\ Components(op.args[1]) = 2
    /\ TransformEnds("transformVector2FromQuaternion",
                     Vector4TransformVector2FromQuaternionStatic(op.args[1], op.args[2]), TRUE)

\* Vector4.transformVector3FromQuaternion(value, rotation)
TransformVector3FromQuaternionStatic ==
    /\ Constructed(3)
    /\ op.class = "Vector4" /\ Components(op.args[1]) = 3
    /\ TransformEnds("transformVector3FromQuaternion",
                     Vector4TransformVector3FromQuaternionStatic(op.args[1], op.args[2]), TRUE)

\* m.$mij() of the reader view of the tuple elements of a Matrix3x2
ReadM3(elements, i, j) == elements[Matrix3x2ReaderIndex(<<i, j>>) + 1]

\* Vector2.transformFrom3x2Matrix(matrix)
Vector2TransformFrom3x2Matrix(this, elements) ==
    LET x == this.x
        y == this.y
    IN  Vector2(Add3(Mul(x, ReadM3(elements, 1, 1)), Mul(y, ReadM3(elements, 2, 1)),
                     ReadM3(elements, 3, 1)),
                Add3(Mul(x, ReadM3(elements, 1, 2)), Mul(y, ReadM3(elements, 2, 2)),
                     ReadM3(elements, 3, 2)))

\* mutant: the translation row is added as in transformFrom3x2Matrix
Vector2TransformNormalFrom3x2MatrixTranslated(this, elements) ==
    Vector2TransformFrom3x2Matrix(this, elements)

\* Vector2.transformNormalFrom3x2Matrix(matrix)
Vector2TransformNormalFrom3x2Matrix(this, elements) ==
    LET x == this.x
        y == this.y
    IN  Vector2(Add(Mul(x, ReadM3(elements, 1, 1)), Mul(y, ReadM3(elements, 2, 1))),
                Add(Mul(x, ReadM3(elements, 1, 2)), Mul(y, ReadM3(elements, 2, 2))))

\* the tuple of a Matrix3x2 whose element read by $mij is rows[i][j]
Matrix3x2FromRows(rows) ==
    [k \in 1..6 |->
        LET f == CHOOSE g \in Fields3 : Matrix3x2WriterIndex(g) = k - 1
        IN  rows[f[1]][f[2]]]

\* the 3x2 matrices of the caller: the identity, a translation, a rotation
\* with a scale, alone and with two translations
Matrices3x2 ==
    {Matrix3x2Identity,
     Matrix3x2FromRows(<< <<One, Zero>>, <<Zero, One>>, <<I(3), I(-1)>> >>),
     Matrix3x2FromRows(<< <<Zero, I(2)>>, <<I(-2), One>>, <<Zero, Zero>> >>),
     Matrix3x2FromRows(<< <<Zero, I(2)>>, <<I(-2), One>>, <<One, Num(1, 2)>> >>),
     Matrix3x2FromRows(<< <<Zero, I(2)>>, <<I(-2), One>>, <<NaN, Infinity>> >>)}

\* the end of a call of a transform of a Vector2 by a Matrix3x2
Transform3x2Ends(name, result, elements) ==
    /\ vec' = result
    /\ ret' = ThisRet
    /\ err' = "none"
    /\ op' = [name |-> name, class |-> op.class, static |-> FALSE, this |-> vec,
              matrix |-> elements]
    /\ UNCHANGED <<calls, objs, heap, frozen, mat4, mat3, plane, nops>>

\* vec.transformFrom3x2Matrix(matrix)
TransformFrom3x2Matrix ==
    /\ Constructed(3)
    /\ op.class = "Vector2"
    /\ \E elements \in Matrices3x2 :
          Transform3x2Ends("transformFrom3x2Matrix",
                           Vector2TransformFrom3x2Matrix(vec, elements), elements)

\* vec.transformNormalFrom3x2Matrix(matrix)
TransformNormalFrom3x2Matrix ==
    /\ Constructed(3)
    /\ op.class = "Vector2"
    /\ \E elements \in Matrices3x2 :
          Transform3x2Ends("transformNormalFrom3x2Matrix",
                           Vector2TransformNormalFrom3x2Matrix(vec, elements), elements)

\* the caller constructed a vector, a Vector2 or Vector3 value, a Quaternion
\* (new Quaternion() among them) and a Matrix4x4 (new Matrix4x4() among them)
InitTransform ==
    /\ InitMatrices
    /\ plane = [normal |-> Vector3(Zero, Zero, Zero), d |-> Zero]
    /\ ret = NoRet
    /\ err = "none"
    /\ \E dim \in 2..4 : \E this \in TransformVectors(dim) :
       \E k \in 2..3 : \E value \in TransformVectors(k) :
       \E rotation \in Quaternions, elements \in PlaneMatrices :
          /\ vec = this
          /\ op = [name |-> "constructor", class |-> ClassName(dim),
                   args |-> <<value, rotation, elements>>]

NextTransform ==
    \/ TransformFrom4x4Matrix
    \/ TransformNormalFrom4x4Matrix
    \/ TransformFromQuaternion
    \/ TransformFromQuaternionStatic
    \/ TransformVector2FromQuaternion
    \/ TransformVector3FromQuaternion
    \/ TransformVector2FromQuaternionStatic
    \/ TransformVector3FromQuaternionStatic
    \/ TransformFrom3x2Matrix
    \/ TransformNormalFrom3x2Matrix

SpecTransform == InitTransform /\ [][NextTransform]_vars

----------------------------------------------------------------------------
(* Claims C16 and C20, checked under SpecTransform *)

\* every component of the vector value v is a finite number
AllFinite(v) == \A c \in DOMAIN v : IsFinite(v[c])

\* the transforms of a vector by a matrix or by a quaternion, in place
InPlaceTransforms ==
    {"transformFrom4x4Matrix", "transformNormalFrom4x4Matrix", "transformFromQuaternion"}

\* the call was made with the identity: new Matrix4x4() for the transforms by
\* a matrix, new Quaternion() for the transform by a quaternion
IdentityCall ==
    /\ op.name \in InPlaceTransforms
    /\ ~op.static
    /\ IF op.name = "transformFromQuaternion" THEN op.rotation = QuaternionDefault
       ELSE op.matrix = Matrix4x4Identity

\* C16 (amended): a default-constructed Quaternion is (0,0,0,1), and
\* transforming a Vector2, Vector3 or Vector4 whose components are all finite
\* by the identity Matrix4x4 or by that Quaternion (transformFrom4x4Matrix /
\* transformFromMatrix4x4, transformNormalFrom4x4Matrix,
\* transformFromQuaternion) leaves every component equal (===) to its input.
C16_IdentityLeavesFinite ==
    /\ QuaternionDefault = [x |-> I(0), y |-> I(0), z |-> I(0), w |-> I(1)]
    /\ (IdentityCall /\ AllFinite(op.this)) =>
          /\ err = "none"
          /\ VectorEquals(DimOf(op.class), vec, op.this)

\* C16 as stated: the identity transforms leave any vector equal to its input.
C16_IdentityLeavesEqual ==
    IdentityCall => VectorEquals(DimOf(op.class), vec, op.this)

\* (-2, 1/2, 0) was transformed by new Quaternion() and is (-2, 1/2, 0)
C16_Witness ==
    /\ IdentityCall /\ op.name = "transformFromQuaternion"
    /\ op.this = Vector3(I(-2), Num(1, 2), Zero)
    /\ vec = Vector3(I(-2), Num(1, 2), Zero)

\* the Vector4 a transform produced: this for an instance form, the vector
\* returned for a static form
Produced == IF op.static THEN ret.val ELSE vec

\* C20: after transformVector2FromQuaternion and transformVector3FromQuaternion
\* (instance and static forms) the Vector4 produced has w = 1, whatever the
\* value, the rotation and the w of the target were; after
\* Vector4.transformFromQuaternion the Vector4 produced has the w of its input.
C20_UnitWFromVector2And3 ==
    /\ op.name \in {"transformVector2FromQuaternion", "transformVector3FromQuaternion"} =>
          Produced.w = One
    /\ (op.name = "transformFromQuaternion" /\ op.class = "Vector4") =>
          Produced.w = op.this.w

\* a Vector4 with w = 4 took the rotation of the Vector2 (-2, 1/2) by a
\* quaternion that is not the identity: its w is 1
C20_Witness ==
    /\ op.name = "transformVector2FromQuaternion" /\ ~op.static
    /\ op.this.w = I(4)
    /\ op.value = Vector2(I(-2), Num(1, 2))
    /\ op.rotation # QuaternionDefault
    /\ vec.w = One /\ vec.x # op.value.x

----------------------------------------------------------------------------
(* Claims C17, C18 and C19, checked under SpecPlaneObjects *)

\* C17: after plane.transformFromQuaternion(q) the normal of the plane is
\* the result of Vector3.transformFromQuaternion(q) on the normal before the
\* call: new x = x(1-yy2-zz2) + y(xy2-wz2) + z(xz2+wy2), new y = x(xy2+wz2) +
\* y(1-xx2-zz2) + z(yz2-wx2), new z = x(xz2-wy2) + y(yz2+wx2) + z(1-xx2-yy2).
C17_SameRotationAsVector3 ==
    [][(op'.name = "Plane.transformFromQuaternion" /\ err' = "none") =>
          PlaneValue(objs', op'.this).normal =
              Vector3TransformFromQuaternion(PlaneValue(objs, op'.this).normal,
                                             objs[op'.rotation].f)]_vars

\* the plane constructed from (0,1,0) was transformed by the rotation by a
\* third of a turn about (1,1,1): its normal is (1,0,0), where
\* Vector3.transformFromQuaternion gives (0,0,1)
C17_Witness ==
    /\ op.name = "Plane.transformFromQuaternion" /\ err = "none" /\ nops = 1
    /\ objs[op.rotation].f = Quaternion(Num(1, 2), Num(1, 2), Num(1, 2), Num(1, 2))
    /\ objs[CallerNormal].f = Vector3(Zero, One, Zero)
    /\ PlaneValue(objs, op.this).normal = Vector3(One, Zero, Zero)
    /\ Vector3TransformFromQuaternion(objs[CallerNormal].f, objs[op.rotation].f) =
          Vector3(Zero, Zero, One)

\* C18: plane.transformFromQuaternion(q) leaves d as it was, leaves q as it
\* was, and leaves every object other than the normal of the plane as it was.
C18_OnlyTheNormalChanges ==
    [][op'.name = "Plane.transformFromQuaternion" =>
          /\ objs'[op'.this].f.d = objs[op'.this].f.d
          /\ objs'[op'.rotation] = objs[op'.rotation]
          /\ \A id \in ObjIds \ {objs[op'.this].f.normal} : objs'[id] = objs[id]
      ]_vars

\* a plane with d = 1 was transformed by a quaternion that is not the
\* identity: its normal is no longer the one it was constructed with, d is 1
C18_Witness ==
    /\ op.name = "Plane.transformFromQuaternion" /\ err = "none" /\ nops = 1
    /\ objs[op.rotation].f # QuaternionDefault
    /\ PlaneValue(objs, op.this).normal # objs[CallerNormal].f
    /\ PlaneValue(objs, op.this).d = One

\* (normal, d) of the plane value this as a 4-vector
PlaneVector4(this) == Vector4(this.normal.x, this.normal.y, this.normal.z, this.d)

\* a.x * b.x + a.y * b.y + a.z * b.z + a.w * b.w
Dot4(a, b) == Add4(Mul(a.x, b.x), Mul(a.y, b.y), Mul(a.z, b.z), Mul(a.w, b.w))

\* row i of the matrix elements as a 4-vector
RowOf(elements, i) ==
    Vector4(ReadM(elements, i, 1), ReadM(elements, i, 2), ReadM(elements, i, 3),
            ReadM(elements, i, 4))

\* column j of the matrix elements as a 4-vector
ColumnOf(elements, j) ==
    Vector4(ReadM(elements, 1, j), ReadM(elements, 2, j), ReadM(elements, 3, j),
            ReadM(elements, 4, j))

\* the product of the matrices a and b is the identity
IsInverseOf(a, b) ==
    \A i \in 1..4, j \in 1..4 :
        Dot4(RowOf(a, i), ColumnOf(b, j)) = (IF i = j THEN One ELSE Zero)

\* points in homogeneous coordinates
TestPoints ==
    {Vector4(Zero, Zero, Zero, One), Vector4(One, Zero, Zero, One),
     Vector4(Zero, I(2), Zero, One), Vector4(One, One, I(-3), One)}

----------------------------------------------------------------------------
(* Claim C21, checked under SpecTransform *)

\* the values a translation entry can be replaced by
TranslationEntries == {Zero, One, I(-3), NaN, Infinity}

\* the tuple elements of a Matrix4x4 with m41, m42, m43 replaced by t
WithTranslation4x4(elements, t) ==
    [k \in 1..16 |->
        IF k = Matrix4x4WriterIndex(<<4, 1>>) + 1 THEN t[1]
        ELSE IF k = Matrix4x4WriterIndex(<<4, 2>>) + 1 THEN t[2]
        ELSE IF k = Matrix4x4WriterIndex(<<4, 3>>) + 1 THEN t[3]
        ELSE elements[k]]

\* the tuple elements of a Matrix3x2 with m31, m32 replaced by t
WithTranslation3x2(elements, t) ==
    [k \in 1..6 |->
        IF k = Matrix3x2WriterIndex(<<3, 1>>) + 1 THEN t[1]
        ELSE IF k = Matrix3x2WriterIndex(<<3, 2>>) + 1 THEN t[2]
        ELSE elements[k]]

\* C21: the result of transformNormalFrom4x4Matrix (Vector2, Vector3) is the
\* result the same call gives with any other values of m41, m42, m43, and
\* that of transformNormalFrom3x2Matrix the result it gives with any other
\* values of m31, m32; the result of transformFrom4x4Matrix (Vector2, Vector3)
\* and of transformFrom3x2Matrix is, in each component, the result of the
\* transform of a normal by the same matrix plus the translation entry of
\* that component.
C21_NormalIgnoresTranslation ==
    LET dim == DimOf(op.class)
    IN  /\ (op.name = "transformNormalFrom4x4Matrix") =>
              \A a \in TranslationEntries, b \in TranslationEntries :
                  vec = TransformNormalFrom4x4MatrixOf(
                            dim, op.this, WithTranslation4x4(op.matrix, <<a, b, a>>))
        /\ (op.name = "transformNormalFrom3x2Matrix") =>
              \A a \in TranslationEntries, b \in TranslationEntries :
                  vec = Vector2TransformNormalFrom3x2Matrix(
                            op.this, WithTranslation3x2(op.matrix, <<a, b>>))
        /\ (op.name = "transformFrom4x4Matrix" /\ dim \in {2, 3}) =>
              LET n == TransformNormalFrom4x4MatrixOf(dim, op.this, op.matrix)
              IN  /\ vec.x = Add(n.x, ReadM(op.matrix, 4, 1))
                  /\ vec.y = Add(n.y, ReadM(op.matrix, 4, 2))
                  /\ dim = 3 => vec.z = Add(n.z, ReadM(op.matrix, 4, 3))
        /\ (op.name = "transformFrom3x2Matrix") =>
              LET n == Vector2TransformNormalFrom3x2Matrix(op.this, op.matrix)
              IN  /\ vec.x = Add(n.x, ReadM3(op.matrix, 3, 1))
                  /\ vec.y = Add(n.y, ReadM3(op.matrix, 3, 2))

\* (-2, 1/2) was transformed as a normal by the 3x2 matrix that rotates,
\* scales and translates by (1, 1/2): the result is that of the matrix without
\* the translation, (-1, -7/2)
C21_Witness ==
    /\ op.name = "transformNormalFrom3x2Matrix"
    /\ op.this = Vector2(I(-2), Num(1, 2))
    /\ ReadM3(op.matrix, 3, 1) = One /\ ReadM3(op.matrix, 3, 2) = Num(1, 2)
    /\ vec = Vector2(I(-1), Num(-7, 2))

----------------------------------------------------------------------------
(* Claims C23 and C28, checked under Spec *)

\* the backing indices of m41, m42, m43
TranslationIndices == {3, 7, 11}

\* C23: setTranslation(t), when it returns, has written t.x, t.y, t.z to the
\* elements at the backing indices 3, 7, 11 (m41, m42, m43) of the matrix,
\* left the other 13 elements and every other array as they were and returned
\* the matrix itself; getTranslation leaves every array as it was, returns
\* the vector (m41, m42, m43) and, called with an out vector, has written it
\* into that vector, which it returns; called after setTranslation(t) it
\* returns the components of t.
C23_TranslationRoundTrip ==
    /\ []((op.name = "setTranslation" /\ err = "none") =>
            LET t == op.translation
                e == heap[mat4.elements]
            IN  /\ e[3 + 1] = t.x /\ e[7 + 1] = t.y /\ e[11 + 1] = t.z
                /\ \A k \in 0..15 : k \notin TranslationIndices =>
                       e[k + 1] = op.heap[mat4.elements][k + 1]
                /\ \A a \in ArrayIds : a # mat4.elements => heap[a] = op.heap[a]
                /\ ret = ThisRet)
    /\ []((op.name = "getTranslation") =>
            LET e == heap[mat4.elements]
            IN  /\ heap = op.heap
                /\ ret = VecRet(Vector3(e[3 + 1], e[7 + 1], e[11 + 1]))
                /\ op.out => vec = ret.val)
    /\ [][(op.name = "setTranslation" /\ err = "none" /\ op'.name = "getTranslation")
              => /\ ret'.val = op.translation
                 /\ mat4' = mat4]_vars

\* setTranslation((1, 0, 1)) was called on the identity and getTranslation(out)
\* after it: the out vector holds (1, 0, 1) and m11 is still 1
C23_Witness ==
    /\ op.name = "getTranslation" /\ op.out
    /\ vec = Vector3(One, Zero, One)
    /\ heap[mat4.elements][3 + 1] = One /\ heap[mat4.elements][11 + 1] = One
    /\ heap[mat4.elements][0 + 1] = One

----------------------------------------------------------------------------
(* The macro-form vectors: tuples with accessor macros *)

\* macro Vector2.$new(): [0, 0]
MacroVector2New == <<Zero, Zero>>

\* macro Vector2.$from(x, y): [x, y]
MacroVector2From(x, y) == <<x, y>>

\* macro Vector3.$new(): [0, 0, 0]
MacroVector3New == <<Zero, Zero, Zero>>

\* macro Vector3.$from(x, y, z): [x, y, z]
MacroVector3From(x, y, z) == <<x, y, z>>

\* the accessors of a macro Vector2: $x(v) is $asData(v)[0], $y(v) is $asData(v)[1]
MacroVector2Get(v, f) ==
    CASE f = "$x" -> v[0 + 1]
      [] f = "$y" -> v[1 + 1]

\* mutant: the accessors of a macro Vector3 read the tuple from its end
MacroVector3GetReversed(v, f) ==
    CASE f = "$x" -> v[2 + 1]
      [] f = "$y" -> v[1 + 1]
      [] f = "$z" -> v[0 + 1]

\* the accessors of a macro Vector3: $x(v) is $asData(v)[0], $y(v) is
\* $asData(v)[1], $z(v) is $asData(v)[2]
MacroVector3Get(v, f) ==
    CASE f = "$x" -> v[0 + 1]
      [] f = "$y" -> v[1 + 1]
      [] f = "$z" -> v[2 + 1]

MacroClasses == {"macro.Vector2", "macro.Vector3"}

\* the accessors declared by the interface of each macro vector
MacroAccessors(class) ==
    IF class = "macro.Vector2" THEN {"$x", "$y"} ELSE {"$x", "$y", "$z"}

\* no macro vector was made yet
InitMacro ==
    /\ InitMatrices
    /\ vec = <<>>
    /\ plane = [normal |-> Vector3(Zero, Zero, Zero), d |-> Zero]
    /\ op = NoOp
    /\ ret = NoRet
    /\ err = "none"

\* const v = Vector2.$new() or Vector3.$new()
MacroNew(class) ==
    /\ vec' = IF class = "macro.Vector2" THEN MacroVector2New ELSE MacroVector3New
    /\ op' = [name |-> "$new", class |-> class]
    /\ ret' = NoRet
    /\ err' = "none"
    /\ UNCHANGED <<calls, objs, heap, frozen, mat4, mat3, plane, nops>>

\* const v = Vector2.$from(x, y) or Vector3.$from(x, y, z)
MacroFrom(class, args) ==
    /\ vec' = IF class = "macro.Vector2"
              THEN MacroVector2From(args[1], args[2])
              ELSE MacroVector3From(args[1], args[2], args[3])
    /\ op' = [name |-> "$from", class |-> class,
              args |-> IF class = "macro.Vector2" THEN <<args[1], args[2]>> ELSE args]
    /\ ret' = NoRet
    /\ err' = "none"
    /\ UNCHANGED <<calls, objs, heap, frozen, mat4, mat3, plane, nops>>

\* v.$x(), v.$y(), v.$z() on the vector made last
MacroGet(f) ==
    /\ op.name \in {"$new", "$from", "$get"}
    /\ f \in MacroAccessors(op.class)
    /\ ret' = NumRet(IF op.class = "macro.Vector2"
                     THEN MacroVector2Get(vec, f) ELSE MacroVector3Get(vec, f))
    /\ op' = [name |-> "$get", class |-> op.class, field |-> f,
              made |-> IF op.name = "$get" THEN op.made ELSE op]
    /\ err' = "none"
    /\ UNCHANGED <<calls, objs, heap, frozen, mat4, mat3, vec, plane, nops>>

NextMacro ==
    \/ \E class \in MacroClasses : MacroNew(class)
    \/ \E class \in MacroClasses :
          \E x \in WriteVals, y \in WriteVals, z \in WriteVals : MacroFrom(class, <<x, y, z>>)
    \/ \E f \in {"$x", "$y", "$z"} : MacroGet(f)

SpecMacro == InitMacro /\ [][NextMacro]_vars

----------------------------------------------------------------------------
(* Claim C24, checked under SpecMacro *)

\* the position of the component an accessor is named after
ComponentOf(f) == CASE f = "$x" -> 1 [] f = "$y" -> 2 [] f = "$z" -> 3

\* C24: every accessor ($x, $y, and $z for a Vector3) of a macro vector made
\* by $new() returns 0, and accessor k of a macro vector made by $from
\* returns argument k of that call: component k is the element at index k of
\* the tuple.
C24_MacroAccessors ==
    /\ (op.name = "$new") => \A k \in DOMAIN vec : vec[k] = Zero
    /\ (op.name = "$from") => vec = op.args
    /\ (op.name = "$get") =>
          /\ (op.made.name = "$new") => ret = NumRet(Zero)
          /\ (op.made.name = "$from") => ret = NumRet(op.made.args[ComponentOf(op.field)])
          /\ Len(vec) = Cardinality(MacroAccessors(op.class))

\* $z() of Vector3.$from(0, NaN, 1) returned 1
C24_Witness ==
    /\ op.name = "$get" /\ op.field = "$z" /\ op.class = "macro.Vector3"
    /\ op.made.name = "$from" /\ op.made.args = <<Zero, NaN, One>>
    /\ ret = NumRet(One)

----------------------------------------------------------------------------
(* Claim C29, checked under SpecObjects *)

\* C29: a call this.cross(other) that returns leaves this equal to the cross
\* product of the values this and other had before the call, which is what
\* the static Vector3.cross(this, other) returns, for every pair of vectors,
\* other being the same instance as this included.
C29_CrossInPlaceIsCross ==
    [][(op'.name = "Vector.cross" /\ err' = "none") =>
           objs'[op'.this].f = Vector3CrossStatic(objs[op'.this].f, objs[op'.other].f)]_vars

\* v.cross(v) was called on v = (2, 1, 1) and left it (0, -2, -4)
C29_Witness ==
    /\ op.name = "Vector.cross" /\ op.other = op.this /\ err = "none"
    /\ objs[op.this].f = Vector3(Zero, I(-2), I(-4))

\* a call of cross whose argument is another instance leaves the cross product
C29_CrossOfDistinct ==
    [][(op'.name = "Vector.cross" /\ err' = "none" /\ op'.other # op'.this) =>
           objs'[op'.this].f = Vector3CrossStatic(objs[op'.this].f, objs[op'.other].f)]_vars

----------------------------------------------------------------------------
(* Claim C22, checked under SpecPlaneObjects *)

\* the dot product of two Vector3 values
Dot3(a, b) == Add3(Mul(a.x, b.x), Mul(a.y, b.y), Mul(a.z, b.z))

\* the normalized cross product of p2 - p1 and p3 - p1
NormalOfVertices(p1, p2, p3) ==
    LET a == Vector3(Sub(p2.x, p1.x), Sub(p2.y, p1.y), Sub(p2.z, p1.z))
        b == Vector3(Sub(p3.x, p1.x), Sub(p3.y, p1.y), Sub(p3.z, p1.z))
        c == Vector3CrossStatic(a, b)
        inv == Div(One, Sqrt(LengthSquared(3, c)))
    IN  Vector3(Mul(c.x, inv), Mul(c.y, inv), Mul(c.z, inv))

\* what the claim states of a step that is a call of makeFromVertices on p
\* with the given points, o and after being the objects before and after it
MakesFromVertices(o, after, p, points, error) ==
    LET p1 == PointValue(o, points[1])
        p2 == PointValue(o, points[2])
        p3 == PointValue(o, points[3])
        n == NormalOfVertices(p1, p2, p3)
    IN  /\ error = "none"
        /\ PlaneValue(after, p).normal = n
        /\ PlaneValue(after, p).d = Neg(Dot3(n, p1))
        /\ \A k \in 1..3 : PointValue(after, points[k]) = PointValue(o, points[k])

\* C22: a call makeFromVertices(p1, p2, p3) on a plane that is not frozen sets
\* the normal to the normalized cross product of p2 - p1 and p3 - p1 and d to
\* minus the dot product of that normal and p1, leaves the three points as
\* they were and raises no error, for collinear points too (the normal and d
\* are then NaN); for (0,0,0), (1,0,0), (0,1,0) the normal is (0,0,1) and d
\* is 0.
C22_MakeFromVertices ==
    [][(op'.name = "Plane.makeFromVertices" /\ ~objs[op'.this].frozen) =>
           /\ MakesFromVertices(objs, objs', op'.this, op'.points, err')
           /\ (op'.points = <<NewPoint(Zero, Zero, Zero), NewPoint(One, Zero, Zero),
                              NewPoint(Zero, One, Zero)>>) =>
                  PlaneValue(objs', op'.this) = [normal |-> Vector3(Zero, Zero, One), d |-> Zero]
      ]_vars

\* makeFromVertices(p.normal, (1,0,0), (0,1,0)) was called on the plane p
\* whose normal was (2,0,0): the normal is (0,0,-1) and d is -1, not 0
C22_Witness ==
    /\ op.name = "Plane.makeFromVertices" /\ err = "none"
    /\ op.points[1] = [ref |-> objs[op.this].f.normal]
    /\ nops = 1
    /\ PlaneValue(objs, op.this) = [normal |-> Vector3(Zero, Zero, I(-1)), d |-> I(-1)]

\* the statement holds of the calls none of whose points is the normal of the
\* plane itself
C22_MakeFromOtherVertices ==
    [][(/\ op'.name = "Plane.makeFromVertices"
        /\ ~objs[op'.this].frozen
        /\ \A k \in 1..3 : op'.points[k] # [ref |-> objs[op'.this].f.normal]) =>
           /\ MakesFromVertices(objs, objs', op'.this, op'.points, err')
           /\ (op'.points = <<NewPoint(Zero, Zero, Zero), NewPoint(One, Zero, Zero),
                              NewPoint(Zero, One, Zero)>>) =>
                  PlaneValue(objs', op'.this) = [normal |-> Vector3(Zero, Zero, One), d |-> Zero]
      ]_vars

----------------------------------------------------------------------------
(* Plane.transformFromMatrix4x4 step by step: the scratch matrix shared by
   every Plane, with calls that may interleave or be reentrant *)

\* the elements the scratch matrix can hold: a matrix of the caller or its inverse
ScratchMatrices ==
    PlaneMatrices \cup {InvertedMatrices[elements].elements : elements \in PlaneMatrices}

\* invert() on the scratch matrix, for each value it can hold
InvertedScratch == [elements \in ScratchMatrices |-> Matrix4x4Invert(elements)]

\* the arrays of elements of the matrices of the caller
CallerMatrices(h, scratch) == {a \in Allocated(h) : a # scratch.elements}

\* the frames of the calls in progress after the call c wrote the scratch
\* matrix: every other call in progress has lost what it had there
Disturbed(cs, c) ==
    [k \in CallIds |->
        IF k # c /\ cs[k].pc # "idle" THEN [cs[k] EXCEPT !.clean = FALSE] ELSE cs[k]]

\* mutant: the scratch matrix is the matrix passed
TransformCopyShared(c, p, m) ==
    /\ nops < MaxCalls
    /\ calls[c].pc = "idle"
    /\ \A k \in CallIds : calls[k].pc = "idle" => c <= k
    /\ heap' = heap
    /\ mat4' = [elements |-> m, frozen |-> FALSE]
    /\ calls' = [Disturbed(calls, c) EXCEPT
                    ![c] = [pc |-> "copied", this |-> p, matrix |-> m, clean |-> TRUE,
                            found |-> <<>>]]
    /\ op' = [name |-> "Plane.transformFromMatrix4x4: copy", call |-> c, this |-> p,
              matrix |-> m]
    /\ ret' = NoRet
    /\ err' = "none"
    /\ nops' = nops + 1
    /\ UNCHANGED <<objs, frozen, mat3, vec, plane>>

\* p.transformFromMatrix4x4(matrix), first step: the scratch matrix becomes a
\* clone of matrix (first call) or matrix is copied into it; m is the array
\* of elements of matrix, c the first frame that is free
TransformCopy(c, p, m) ==
    /\ nops < MaxCalls
    /\ calls[c].pc = "idle"
    /\ \A k \in CallIds : calls[k].pc = "idle" => c <= k
    /\ LET s == ScratchAssign(heap, mat4, heap[m])
       IN  /\ heap' = s.heap
           /\ mat4' = s.mat4
    /\ calls' = [Disturbed(calls, c) EXCEPT
                    ![c] = [pc |-> "copied", this |-> p, matrix |-> m, clean |-> TRUE,
                            found |-> IF mat4.elements = 0 THEN <<>>
                                      ELSE heap[mat4.elements]]]
    /\ op' = [name |-> "Plane.transformFromMatrix4x4: copy", call |-> c, this |-> p,
              matrix |-> m]
    /\ ret' = NoRet
    /\ err' = "none"
    /\ nops' = nops + 1
    /\ UNCHANGED <<objs, frozen, mat3, vec, plane>>

\* mutant: a singular scratch matrix is left as it is and the call goes on
TransformInvertAnyway(c) ==
    /\ calls[c].pc = "copied"
    /\ heap' = [heap EXCEPT ![mat4.elements] = InvertedScratch[heap[mat4.elements]].elements]
    /\ err' = "none"
    /\ calls' = [Disturbed(calls, c) EXCEPT ![c].pc = "inverted"]
    /\ op' = [name |-> "Plane.transformFromMatrix4x4: invert", call |-> c,
              this |-> calls[c].this, matrix |-> calls[c].matrix]
    /\ ret' = NoRet
    /\ UNCHANGED <<objs, frozen, mat4, mat3, vec, plane, nops>>

\* second step: inverted.invert() on the scratch matrix; it throws when the
\* elements it holds are those of a singular matrix, which ends the call
TransformInvert(c) ==
    /\ calls[c].pc = "copied"
    /\ LET r == InvertedScratch[heap[mat4.elements]]
       IN  /\ heap' = [heap EXCEPT ![mat4.elements] = r.elements]
           /\ err' = r.err
           /\ calls' = IF r.err # "none"
                       THEN [calls EXCEPT ![c] = Idle]
                       ELSE [Disturbed(calls, c) EXCEPT ![c].pc = "inverted"]
    /\ op' = [name |-> "Plane.transformFromMatrix4x4: invert", call |-> c,
              this |-> calls[c].this, matrix |-> calls[c].matrix]
    /\ ret' = NoRet
    /\ UNCHANGED <<objs, frozen, mat4, mat3, vec, plane, nops>>

\* the frame a finished call leaves in op: pre is the plane it read
Finished(c) ==
    [name |-> "Plane.transformFromMatrix4x4", call |-> c, this |-> calls[c].this,
     matrix |-> calls[c].matrix, clean |-> calls[c].clean, found |-> calls[c].found,
     pre |-> PlaneValue(objs, calls[c].this)]

\* mutant: the entries are read from a fresh inverse of the matrix passed
TransformAssignFresh(c) ==
    /\ calls[c].pc = "inverted"
    /\ LET this == calls[c].this
           v == PlaneTransformFromMatrix4x4(PlaneValue(objs, this),
                                            InvertedScratch[heap[calls[c].matrix]].elements)
           r == PlaneWrite(objs, this, v.normal, v.d)
       IN  /\ objs' = r.objs
           /\ err' = r.err
           /\ ret' = IF r.err = "none" THEN ThisRet ELSE NoRet
    /\ calls' = [calls EXCEPT ![c] = Idle]
    /\ op' = Finished(c)
    /\ UNCHANGED <<heap, frozen, mat4, mat3, vec, plane, nops>>

\* last step: the entries of the scratch matrix and normal.x, normal.y,
\* normal.z, d are read, then the normal and d are assigned; return this
TransformAssign(c) ==
    /\ calls[c].pc = "inverted"
    /\ LET this == calls[c].this
           v == PlaneTransformFromMatrix4x4(PlaneValue(objs, this), heap[mat4.elements])
           r == PlaneWrite(objs, this, v.normal, v.d)
       IN  /\ objs' = r.objs
           /\ err' = r.err
           /\ ret' = IF r.err = "none" THEN ThisRet ELSE NoRet
    /\ calls' = [calls EXCEPT ![c] = Idle]
    /\ op' = Finished(c)
    /\ UNCHANGED <<heap, frozen, mat4, mat3, vec, plane, nops>>

\* the two matrices of the caller: a matrix that is singular or does not
\* rotate or scale, and another one, which is invertible and not the identity
CallerMatrixPairs ==
    {m \in PlaneMatrices \X PlaneMatrices :
        /\ m[1] # m[2]
        /\ m[2] # Matrix4x4Identity
        /\ InvertedMatrices[m[2]].err = "none"
        /\ InvertedMatrices[m[1]].err = "none" => ReadM(m[1], 1, 1) = One}

\* the normals of the planes of the caller
ScratchNormals == {normal \in PlaneObjectNormals : normal.y = Zero}

\* the caller constructed a Vector3, two planes from it and two matrices
\* (arrays 1 and 2); the scratch matrix of Plane is null
InitScratch ==
    /\ frozen = {}
    /\ mat4 = [elements |-> 0, frozen |-> FALSE]
    /\ mat3 = [elements |-> 0, frozen |-> FALSE]
    /\ vec = Vector3(Zero, Zero, Zero)
    /\ plane = [normal |-> Vector3(Zero, Zero, Zero), d |-> Zero]
    /\ ret = NoRet
    /\ err = "none"
    /\ nops = 0
    /\ calls = NoCalls
    /\ \E normal \in ScratchNormals, m \in CallerMatrixPairs :
          /\ heap = [a \in ArrayIds |-> IF a = 1 THEN m[1] ELSE IF a = 2 THEN m[2] ELSE <<>>]
          /\ LET o == [NoObjects EXCEPT ![1] = VectorObject("Vector3", normal, FALSE, "")]
                 r1 == PlaneConstructor(o, 1, Zero)
                 r2 == PlaneConstructor(r1.objs, 1, One)
             IN  /\ objs = r2.objs
                 /\ op = [name |-> "Plane.constructor", this |-> r2.ref, normal |-> 1]

NextScratch ==
    \/ \E c \in CallIds : \E p \in PlaneIds(objs) : \E m \in CallerMatrices(heap, mat4) :
          TransformCopy(c, p, m)
    \/ \E c \in CallIds : TransformInvert(c)
    \/ \E c \in CallIds : TransformAssign(c)

SpecScratch == InitScratch /\ [][NextScratch]_vars

----------------------------------------------------------------------------
(* Claims C25, C26, C27, C30, checked under SpecScratch *)

\* the plane p.transformFromMatrix4x4(matrix) leaves when the scratch matrix
\* is allocated for the call: this is the plane read, elements those of matrix
FreshResult(this, elements) ==
    PlaneTransformFromMatrix4x4(this, InvertedScratch[elements].elements)

\* the step is the last step of a call that returns
Returns == op'.name = "Plane.transformFromMatrix4x4" /\ err' = "none"

\* C25: a call of transformFromMatrix4x4 that no other call interleaved with
\* leaves the plane that the same call would leave with a scratch matrix
\* allocated for it, which depends on the plane and the matrix of the call
\* only, whatever the earlier calls left in the scratch matrix; the scratch
\* matrix is allocated by the first call and is the same instance from then on.
C25_ScratchReuseIsInvisible ==
    /\ [][(Returns /\ op'.clean) =>
             PlaneValue(objs', op'.this) = FreshResult(op'.pre, heap[op'.matrix])]_vars
    /\ [][mat4.elements # 0 => mat4' = mat4]_vars
    /\ [][(mat4.elements = 0 /\ op'.name = "Plane.transformFromMatrix4x4: copy") =>
             mat4'.elements \notin Allocated(heap)]_vars

\* a call that found in the scratch matrix the inverse left by an earlier
\* call with another matrix returned, with no call interleaved
C25_Witness ==
    /\ op.name = "Plane.transformFromMatrix4x4" /\ err = "none"
    /\ op.clean
    /\ op.found # <<>> /\ op.found # heap[op.matrix]
    /\ InvertedScratch[op.found].elements # heap[op.matrix]
    /\ PlaneValue(objs, op.this) # op.pre

\* C26: when a second call copies its matrix into the scratch matrix after a
\* first call has copied and inverted its own and before that first call
\* reads the entries, the first call computes the normal and d from the
\* matrix of the second call; and a call leaves a plane other than the one a
\* scratch matrix of its own gives only if another call wrote the scratch
\* matrix while it was in progress.
C26_InterleavingHazard ==
    /\ [][(/\ op'.name = "Plane.transformFromMatrix4x4"
           /\ op.name = "Plane.transformFromMatrix4x4: copy"
           /\ op.call # op'.call
           /\ err' = "none") =>
             PlaneValue(objs', op'.this) =
                 PlaneTransformFromMatrix4x4(op'.pre, heap[op.matrix])]_vars
    /\ [][(Returns /\ PlaneValue(objs', op'.this) # FreshResult(op'.pre, heap[op'.matrix]))
             => ~op'.clean]_vars

\* a call returned after another call copied its matrix over the inverse:
\* the plane it left is not the one its own matrix gives
C26_Witness ==
    /\ op.name = "Plane.transformFromMatrix4x4" /\ err = "none"
    /\ ~op.clean
    /\ PlaneValue(objs, op.this) # FreshResult(op.pre, heap[op.matrix])
    /\ \E c \in CallIds : calls[c].pc = "copied" /\ calls[c].matrix # op.matrix

\* C27: no step of transformFromMatrix4x4 changes the elements of a matrix of
\* the caller: the inversion is applied to the scratch matrix, whose elements
\* are never the array of elements of a matrix passed.
C27_ArgumentUntouched ==
    /\ [][\A a \in CallerMatrices(heap, mat4) :
             /\ heap'[a] = heap[a]
             /\ a \in CallerMatrices(heap', mat4')]_vars
    /\ [][op'.name = "Plane.transformFromMatrix4x4: copy" =>
             /\ mat4'.elements # op'.matrix
             /\ heap'[mat4'.elements] = heap[op'.matrix]]_vars

\* the scratch matrix holds the inverse of the translation by (1, 2, 3) that
\* was passed, and the matrix passed still holds the translation
C27_Witness ==
    /\ op.name = "Plane.transformFromMatrix4x4: invert" /\ err = "none"
    /\ ReadM(heap[op.matrix], 4, 1) = One /\ ReadM(heap[op.matrix], 4, 3) = I(3)
    /\ ReadM(heap[mat4.elements], 4, 1) = I(-1) /\ ReadM(heap[mat4.elements], 4, 3) = I(-3)

\* the scratch matrix holds the elements of a singular matrix
ScratchIsSingular(h, scratch) == InvertedScratch[h[scratch.elements]].err # "none"

\* C30: when the inversion fails (the scratch matrix holds a singular matrix)
\* the call ends with that error and the normal and d of every plane are as
\* before the call; a later call, not interleaved, that finds the scratch
\* matrix as the failed call left it returns the plane it would return had
\* the failed call never been made.
C30_FailedInversion ==
    /\ [][(op'.name = "Plane.transformFromMatrix4x4: invert" /\ ScratchIsSingular(heap, mat4)) =>
             /\ err' = SingularError
             /\ objs' = objs
             /\ calls'[op'.call] = Idle]_vars
    /\ [][(calls # calls' /\ \E c \in CallIds : calls[c].pc = "copied" /\ calls'[c] = Idle) =>
             (objs' = objs /\ err' = SingularError)]_vars
    /\ [][(Returns /\ op'.clean /\ op'.found # <<>> /\ InvertedScratch[op'.found].err # "none")
             => PlaneValue(objs', op'.this) = FreshResult(op'.pre, heap[op'.matrix])]_vars

\* a call with a singular matrix failed, and the next call, with the matrix
\* that rotates, scales and translates, returned
C30_Witness ==
    /\ op.name = "Plane.transformFromMatrix4x4" /\ err = "none"
    /\ op.clean
    /\ op.found # <<>> /\ InvertedScratch[op.found].err # "none"
    /\ PlaneValue(objs, op.this) # op.pre
    /\ calls = NoCalls
    /\ nops = 2

====
